---- MODULE Spec2Model ----
(***************************************************************************)
(* Model of the corrective RAG workflow of the diabetes assistant          *)
(* (src/api/tools.py, src/api/utils.py) and of the incremental scraper     *)
(* that fills its knowledge base (diabetes_scraper_scheduler.py).          *)
(*                                                                         *)
(* Python strings are TLA+ strings; a character is a string of length 1.   *)
(* Python values that may be None or of another type are tagged records    *)
(* ([ty |-> "str", v |-> ...], [ty |-> "none"], [ty |-> "list"]).          *)
(* Floating point relevance values are kept in hundredths (0.5 is 50).     *)
(***************************************************************************)
EXTENDS Integers, Sequences, FiniteSets, TLC

VARIABLES
    pc,         \* position of the workflow run (the step the agent is at)
    query,      \* the user's question, as given to the tools
    emergency,  \* result of detect_emergency, NoResult before the call
    kb_out,     \* output of query_diabetes_knowledge, PyNone before the call
    kb_passages,\* what the knowledge base did in this run, NoResult before the call
    verdict,    \* outcome of check_chunks_relevance, NoResult before the call
    results_arg,  \* the results argument of check_chunks_relevance
    question_arg, \* the question argument of check_chunks_relevance
    scorer_env, \* what the environment of check_chunks_relevance did, NoResult before
    web_out,    \* output of medical_web_search, PyNone before the call
    med_out,    \* result of check_medication_safety, NoResult before the call
    answer,     \* what the run ends with
    calls,      \* the tools invoked in this run, in order
    medications_arg, \* the medications argument of check_medication_safety
    tool_call,  \* a tool invocation: the tool, its arguments and what its environment does
    tool_out,   \* the outcome of that invocation, NoResult before it
    bucket,     \* the object storage of the scraper: the tracker object and the documents
    clock,      \* the time of the scraper's host, in seconds
    runs,       \* the local state of each scraper run
    started     \* the number of scraper runs started so far

flowVars == <<pc, query, emergency, kb_out, kb_passages, verdict, results_arg, question_arg,
              scorer_env, web_out, med_out, answer, calls, medications_arg>>

toolVars == <<tool_call, tool_out>>

scraperVars == <<bucket, clock, runs, started>>

vars == <<flowVars, toolVars, scraperVars>>

----------------------------------------------------------------------------
(* Python values *)

PyNone == [ty |-> "none"]
PyStr(s) == [ty |-> "str", v |-> s]
PyList == [ty |-> "list"]
PyListOf(xs) == [ty |-> "list", v |-> xs]
NoResult == [ty |-> "none"]

----------------------------------------------------------------------------
(* Strings *)

Char(s, k) == SubSeq(s, k, k)

UpperChars == "ABCDEFGHIJKLMNOPQRSTUVWXYZ"
LowerChars == "abcdefghijklmnopqrstuvwxyz"

LowerChar(c) ==
    IF \E k \in 1..Len(UpperChars) : Char(UpperChars, k) = c
    THEN Char(LowerChars, CHOOSE k \in 1..Len(UpperChars) : Char(UpperChars, k) = c)
    ELSE c

RECURSIVE lower(_)
\* str.lower()
lower(s) == IF s = "" THEN "" ELSE LowerChar(Char(s, 1)) \o lower(SubSeq(s, 2, Len(s)))

\* s[i+1 ..] starts with lit (i is a 0-based offset)
StartsAt(lit, s, i) == i + Len(lit) <= Len(s) /\ SubSeq(s, i + 1, i + Len(lit)) = lit

\* Python's  sub in s
In(sub, s) == \E i \in 0..Len(s) : StartsAt(sub, s, i)

Digit == {"0", "1", "2", "3", "4", "5", "6", "7", "8", "9"}
Whitespace == {" ", "\n", "\t", "\r", "\f"}

----------------------------------------------------------------------------
(* Regular expressions (the subset of Python's re the patterns use) *)

Lit(s) == [t |-> "lit", s |-> s]
Alt(a) == [t |-> "alt", a |-> a]
Cat(a) == [t |-> "cat", a |-> a]
Opt(r) == [t |-> "opt", r |-> r]
\* one character of the class c
OneOf(c) == [t |-> "rep", neg |-> FALSE, c |-> c, min |-> 1, max |-> 1]
\* \d{n+1,} in place of \d{n,}: one digit too many is asked for
DigitsOneMore(n) == [t |-> "rep", neg |-> FALSE, c |-> Digit, min |-> n + 1, max |-> -1]

\* \d{n,}
Digits(n) == [t |-> "rep", neg |-> FALSE, c |-> Digit, min |-> n, max |-> -1]
\* .* and .*? without re.DOTALL: any characters but a newline
DotStar == [t |-> "rep", neg |-> TRUE, c |-> {"\n"}, min |-> 0, max |-> -1]

InClass(re, ch) == IF re.neg THEN ch \notin re.c ELSE ch \in re.c

RECURSIVE Ends(_, _, _), EndsSeq(_, _, _, _)
\* the offsets j at which a match of re that starts at offset i can end
Ends(re, s, i) ==
    CASE re.t = "lit" -> IF StartsAt(re.s, s, i) THEN {i + Len(re.s)} ELSE {}
      [] re.t = "rep" ->
            {j \in (i + re.min)..(IF re.max < 0 THEN Len(s) ELSE i + re.max) :
                j <= Len(s) /\ \A k \in (i + 1)..j : InClass(re, Char(s, k))}
      [] re.t = "alt" -> UNION {Ends(re.a[k], s, i) : k \in DOMAIN re.a}
      [] re.t = "cat" -> EndsSeq(re.a, 1, s, {i})
      [] re.t = "opt" -> {i} \cup Ends(re.r, s, i)

EndsSeq(a, k, s, from) ==
    IF k > Len(a) \/ from = {} THEN from
    ELSE EndsSeq(a, k + 1, s, UNION {Ends(a[k], s, i) : i \in from})

\* re.search(pattern, s) is not None
Search(re, s) == \E i \in 0..Len(s) : Ends(re, s, i) # {}

----------------------------------------------------------------------------
(* detect_emergency *)

DiabetesOrSugar == Alt(<<Lit("diabetes"), Lit("sugar")>>)
DiabetesOrDiabetic == Alt(<<Lit("diabetes"), Lit("diabetic")>>)

emergency_patterns == <<
    [type |-> "severe_hyperglycemia", patterns |-> <<
        Cat(<<Lit("blood sugar "), Alt(<<Lit("over"), Lit("above"), Lit("more than")>>),
              Lit(" "), Digits(3)>>),
        Cat(<<Lit("glucose"), DotStar, Digits(3)>>),
        Cat(<<Digits(3), DotStar, Alt(<<Lit("blood sugar"), Lit("glucose")>>)>>) >>],
    [type |-> "severe_hypoglycemia", patterns |-> <<
        Cat(<<Lit("blood sugar "), Alt(<<Lit("under"), Lit("below"), Lit("less than")>>),
              Lit(" "), Alt(<<Lit("40"), Lit("30"), Lit("20")>>)>>),
        Cat(<<Lit("glucose"), DotStar, OneOf({"1", "2", "3"}), OneOf(Digit)>>),
        Cat(<<Alt(<<Lit("unconscious"), Lit("passing out"), Lit("fainted")>>), DotStar,
              DiabetesOrSugar>>) >>],
    [type |-> "dka_symptoms", patterns |-> <<
        Cat(<<Lit("fruity"), DotStar, Alt(<<Lit("breath"), Lit("smell")>>)>>),
        Cat(<<Alt(<<Lit("vomiting"), Lit("nausea")>>), DotStar, DiabetesOrSugar>>),
        Cat(<<Alt(<<Lit("rapid"), Lit("fast")>>), Lit(" breathing"), DotStar, DiabetesOrSugar>>),
        Alt(<<Lit("diabetic ketoacidosis"), Lit("dka")>>) >>],
    [type |-> "cardiac", patterns |-> <<
        Cat(<<Lit("chest pain"), DotStar, DiabetesOrDiabetic>>),
        Cat(<<Lit("heart attack"), DotStar, DiabetesOrSugar>>),
        Cat(<<Lit("difficulty breathing"), DotStar, DiabetesOrDiabetic>>) >>],
    [type |-> "severe_confusion", patterns |-> <<
        Cat(<<Alt(<<Lit("confused"), Lit("disoriented"), Lit("delirious")>>), DotStar,
              DiabetesOrSugar>>),
        Cat(<<Lit("can"), Opt(Lit("'")), Lit("t "), Alt(<<Lit("think"), Lit("focus")>>),
              DotStar, DiabetesOrSugar>>) >>] >>

explanations(et) ==
    CASE et = "severe_hyperglycemia" ->
            "- Blood sugar over 400 mg/dL can lead to diabetic ketoacidosis (DKA), a life-threatening condition"
      [] et = "severe_hypoglycemia" ->
            "- Blood sugar under 40 mg/dL can cause seizures, loss of consciousness, or death"
      [] et = "dka_symptoms" ->
            "- Diabetic ketoacidosis is a medical emergency requiring immediate hospitalization"
      [] et = "cardiac" ->
            "- Diabetes increases heart attack risk; chest pain requires immediate evaluation"
      [] et = "severe_confusion" ->
            "- Severe confusion with diabetes may indicate dangerous blood sugar levels"
      [] OTHER -> "- " \o et

RECURSIVE Join(_, _)
\* sep.join(lines)
Join(sep, lines) ==
    IF lines = <<>> THEN ""
    ELSE IF Len(lines) = 1 THEN lines[1]
    ELSE lines[1] \o sep \o Join(sep, Tail(lines))

_format_emergency_reasons(emergency_types) ==
    Join("\n", [k \in DOMAIN emergency_types |-> explanations(emergency_types[k])])

ResponseHead ==
    "**MEDICAL EMERGENCY DETECTED**\n\nBased on your message, you may be experiencing a medical emergency related to diabetes.\n\n**IMMEDIATE ACTIONS REQUIRED:**\n1. **CALL 911** or your local emergency number immediately\n2. If you have a glucagon kit (for low blood sugar), use it now\n3. Do NOT drive yourself - wait for emergency services\n4. Stay with someone if possible\n5. Have your medications and medical information ready\n\n**Why this is urgent:**\n"
ResponseTail ==
    "\n\n**This is an AI assistant. This is NOT a substitute for professional medical care.**\n**Please seek immediate medical attention.**\n\nNational Diabetes Emergency Hotline: 1-800-DIABETES (1-800-342-2383)\n"

RECURSIVE FirstMatch(_, _, _)
\* the inner loop: the patterns are tried in order up to the first that matches
FirstMatch(patterns, k, s) ==
    IF k > Len(patterns) THEN FALSE
    ELSE IF Search(patterns[k], s) THEN TRUE
    ELSE FirstMatch(patterns, k + 1, s)

RECURSIVE DetectLoopFirstOnly(_, _, _)
\* the outer loop, were it left at the first category that matches
DetectLoopFirstOnly(k, query_lower, detected_emergencies) ==
    IF k > Len(emergency_patterns) THEN detected_emergencies
    ELSE IF FirstMatch(emergency_patterns[k].patterns, 1, query_lower)
    THEN Append(detected_emergencies, emergency_patterns[k].type)
    ELSE DetectLoopFirstOnly(k + 1, query_lower, detected_emergencies)

RECURSIVE AppendPerPattern(_, _, _, _)
\* the inner loop, were it to go on after a match
AppendPerPattern(entry, k, s, detected_emergencies) ==
    IF k > Len(entry.patterns) THEN detected_emergencies
    ELSE AppendPerPattern(entry, k + 1, s,
            IF Search(entry.patterns[k], s)
            THEN Append(detected_emergencies, entry.type)
            ELSE detected_emergencies)

RECURSIVE DetectLoopNoBreak(_, _, _)
\* the outer loop, were the inner one without its break
DetectLoopNoBreak(k, query_lower, detected_emergencies) ==
    IF k > Len(emergency_patterns) THEN detected_emergencies
    ELSE DetectLoopNoBreak(k + 1, query_lower,
            AppendPerPattern(emergency_patterns[k], 1, query_lower, detected_emergencies))

RECURSIVE DetectLoop(_, _, _)
\* the outer loop over emergency_patterns.items(), appending to detected_emergencies
DetectLoop(k, query_lower, detected_emergencies) ==
    IF k > Len(emergency_patterns) THEN detected_emergencies
    ELSE DetectLoop(k + 1, query_lower,
            IF FirstMatch(emergency_patterns[k].patterns, 1, query_lower)
            THEN Append(detected_emergencies, emergency_patterns[k].type)
            ELSE detected_emergencies)

\* detect_emergency, were the emergency result built without looking at
\* detected_emergencies
detect_emergency_unguarded(q) ==
    LET detected_emergencies == DetectLoop(1, lower(q), <<>>)
    IN  [ty |-> "dict",
         is_emergency |-> TRUE,
         emergency_types |-> detected_emergencies,
         emergency_response |->
             PyStr(ResponseHead \o _format_emergency_reasons(detected_emergencies)
                   \o ResponseTail)]

detect_emergency(q) ==
    LET query_lower == lower(q)
        detected_emergencies == DetectLoop(1, query_lower, <<>>)
    IN  IF detected_emergencies # <<>>
        THEN [ty |-> "dict",
              is_emergency |-> TRUE,
              emergency_types |-> detected_emergencies,
              emergency_response |->
                  PyStr(ResponseHead \o _format_emergency_reasons(detected_emergencies)
                        \o ResponseTail)]
        ELSE [ty |-> "dict",
              is_emergency |-> FALSE,
              emergency_types |-> <<>>,
              emergency_response |-> PyNone]

----------------------------------------------------------------------------
(* More string helpers *)

RECURSIVE lstrip(_)
lstrip(s) == IF s # "" /\ Char(s, 1) \in Whitespace THEN lstrip(SubSeq(s, 2, Len(s))) ELSE s

RECURSIVE rstrip(_)
rstrip(s) ==
    IF s # "" /\ Char(s, Len(s)) \in Whitespace THEN rstrip(SubSeq(s, 1, Len(s) - 1)) ELSE s

\* str.strip()
strip(s) == rstrip(lstrip(s))

DigitChars == "0123456789"

RECURSIVE ToStr(_)
\* str(n) for n >= 0
ToStr(n) ==
    IF n < 10 THEN Char(DigitChars, n + 1)
    ELSE ToStr(n \div 10) \o Char(DigitChars, (n % 10) + 1)

\* f"{score:.2f}" for a score kept in hundredths
Fmt2f(h) ==
    ToStr(h \div 100) \o "." \o Char(DigitChars, ((h % 100) \div 10) + 1)
        \o Char(DigitChars, (h % 10) + 1)

\* the least offset i >= from at which lit starts in s, or -1
NextAt(lit, s, from) ==
    IF \E i \in from..Len(s) : StartsAt(lit, s, i)
    THEN CHOOSE i \in from..Len(s) :
            StartsAt(lit, s, i) /\ \A j \in from..(i - 1) : ~StartsAt(lit, s, j)
    ELSE -1

----------------------------------------------------------------------------
(* query_diabetes_knowledge *)

KbNotConfigured ==
    "Diabetes knowledge base is not configured. Please contact your administrator."
KbNoResults ==
    "No relevant diabetes information found for your question. Please try rephrasing or ask a different question."
KbNothingRelevant ==
    "No sufficiently relevant diabetes information found. Please try rephrasing your question."
KbHeader == "Based on medical knowledge sources:\n\n"

\* the test, were a passage at the minimum score dropped too
IncludedAbove(result, min_score) == result.score > min_score

\* a retrieved passage is kept when its score is not below min_score
Included(result, min_score) == ~(result.score < min_score)

RECURSIVE FormatResults(_, _, _, _)
\* the loop over enumerate(response["retrievalResults"], 1)
FormatResults(results, idx, min_score, results_text) ==
    IF idx > Len(results) THEN results_text
    ELSE FormatResults(results, idx + 1, min_score,
            IF ~Included(results[idx], min_score) THEN results_text
            ELSE results_text
                    \o "**Source " \o ToStr(idx) \o "** (relevance: "
                    \o Fmt2f(results[idx].score) \o ")\n"
                    \o results[idx].content \o "\n\n"
                    \o "*Reference: " \o results[idx].uri \o "*\n\n")

\* kb is what the knowledge base does: [configured, raises, results]
query_diabetes_knowledge(question, kb, min_score) ==
    IF ~kb.configured THEN KbNotConfigured
    ELSE IF kb.raises THEN "Error accessing diabetes knowledge base: " \o kb.error
    ELSE IF Len(kb.results) = 0 THEN KbNoResults
    ELSE LET results_text == FormatResults(kb.results, 1, min_score, KbHeader)
         IN  IF results_text = KbHeader THEN KbNothingRelevant ELSE strip(results_text)

----------------------------------------------------------------------------
(* check_chunks_relevance *)

RECURSIVE SkipWhitespace(_, _)
\* \s* (greedy): the offset after the run of whitespace that starts at offset i
SkipWhitespace(s, i) ==
    IF i < Len(s) /\ Char(s, i + 1) \in Whitespace THEN SkipWhitespace(s, i + 1) ELSE i

RECURSIVE FindDocs(_, _)
\* [chunk.strip() for chunk in re.findall(pattern, results, re.DOTALL)] with
\* pattern = r"Score:.*?\nContent:\s*(.*?)(?=Score:|\Z)", scanning from offset `from`
FindDocs(s, from) ==
    LET p == NextAt("Score:", s, from)
        q == IF p = -1 THEN -1 ELSE NextAt("\nContent:", s, p + Len("Score:"))
        w == SkipWhitespace(s, q + Len("\nContent:"))
        n == NextAt("Score:", s, w)
        e == IF n = -1 THEN Len(s) ELSE n
    IN  IF p = -1 \/ q = -1 THEN <<>>
        ELSE <<strip(SubSeq(s, w + 1, e))>> \o FindDocs(s, e)

Threshold == 50

\* the verdict, were the threshold compared with >=
VerdictAtLeast(score) == IF score >= Threshold THEN "yes" ELSE "no"

Verdict(score) == IF score > Threshold THEN "yes" ELSE "no"

FailOpenValue == 50

Raise(msg, docs, called) ==
    [ty |-> "outcome", kind |-> "raise", error |-> msg, docs |-> docs,
     model_called |-> called]

NoChunksMessage == "No valid content chunks found in 'results'."

\* the check for no docs, were it left out
NoDocsNever(docs) == FALSE

\* if not docs
NoDocs(docs) == docs = <<>>

\* the body of the try block; env is what the environment does:
\* [imports_ok, client_ok, scoring_ok, score]
RelevanceBody(results, question, env) ==
    IF ~env.imports_ok THEN Raise("No module named 'ragas'", <<>>, FALSE)
    ELSE IF results.ty # "str" \/ results.v = ""
    THEN Raise("Invalid input: 'results' must be a non-empty string.", <<>>, FALSE)
    ELSE IF question.ty # "str" \/ question.v = ""
    THEN Raise("Invalid input: 'question' must be a non-empty string.", <<>>, FALSE)
    ELSE LET docs == FindDocs(results.v, 0)
         IN  IF NoDocs(docs)
             THEN Raise(NoChunksMessage, docs, FALSE)
             ELSE IF ~env.client_ok
             THEN Raise("Could not create the evaluation model client", docs, FALSE)
             ELSE IF ~env.scoring_ok
             THEN Raise("The evaluation model call failed", docs, TRUE)
             ELSE [ty |-> "outcome",
                   kind |-> "return",
                   value |-> [error |-> PyNone,
                              chunk_relevance_score |-> Verdict(env.score),
                              chunk_relevance_value |-> env.score],
                   docs |-> docs,
                   model_called |-> TRUE]

\* the except branch, were it to assume the chunks irrelevant
FailClosed(b) ==
    [ty |-> "outcome",
     kind |-> "return",
     value |-> [error |-> PyStr(b.error),
                chunk_relevance_score |-> "no",
                chunk_relevance_value |-> 0],
     docs |-> b.docs,
     model_called |-> b.model_called]

\* except Exception as e: the fail-safe result
FailOpen(b) ==
    [ty |-> "outcome",
     kind |-> "return",
     value |-> [error |-> PyStr(b.error),
                chunk_relevance_score |-> "yes",
                chunk_relevance_value |-> FailOpenValue],
     docs |-> b.docs,
     model_called |-> b.model_called]

\* the outcome for the caller: kind is "return" (value is the dict) or "raise";
\* docs and model_called record what the call extracted and whether it reached
\* the external scoring model
check_chunks_relevance(results, question, env) ==
    LET b == RelevanceBody(results, question, env)
    IN  IF b.kind = "raise" THEN FailOpen(b) ELSE b

----------------------------------------------------------------------------
(* medical_web_search *)

WebNoKey == "Medical web search functionality is not available because there is no API Key."
WebHeader == "**Web Search Results:**\n\n"

RECURSIVE FormatWeb(_, _, _)
FormatWeb(search_results, idx, formatted_results) ==
    IF idx > Len(search_results) THEN formatted_results
    ELSE FormatWeb(search_results, idx + 1,
            formatted_results
                \o "**Source " \o ToStr(idx) \o "** (relevance: "
                \o Fmt2f(search_results[idx].score) \o ")\n"
                \o "**Title:** " \o search_results[idx].title \o "\n"
                \o search_results[idx].content \o "\n\n"
                \o "*Reference: " \o search_results[idx].url \o "*\n\n")

\* web is what the search service does: [has_key, raises, results]
medical_web_search(q, web) ==
    IF ~web.has_key THEN WebNoKey
    ELSE IF web.raises THEN "Error performing medical web search: " \o web.error
    ELSE strip(FormatWeb(web.results, 1, WebHeader))

----------------------------------------------------------------------------
(* check_medication_safety *)

interaction_db == <<
    [med |-> "metformin",
     contraindications |-> <<"kidney disease", "renal failure", "dialysis", "contrast dye", "iodine">>,
     interactions |-> <<"alcohol", "excessive alcohol", "diuretic">>,
     warnings |-> "Metformin should be stopped before surgery or contrast imaging procedures."],
    [med |-> "insulin",
     contraindications |-> <<"hypoglycemia", "low blood sugar">>,
     interactions |-> <<"beta blocker", "propranolol", "ace inhibitor">>,
     warnings |-> "Insulin dosing must be carefully managed to avoid severe hypoglycemia."],
    [med |-> "glipizide",
     contraindications |-> <<"sulfa allergy">>,
     interactions |-> <<"warfarin", "coumadin", "nsaid", "ibuprofen">>,
     warnings |-> "Sulfonylureas like glipizide can cause hypoglycemia, especially with missed meals."],
    [med |-> "glyburide",
     contraindications |-> <<"liver disease", "sulfa allergy">>,
     interactions |-> <<"warfarin", "coumadin", "nsaid">>,
     warnings |-> "Glyburide has higher hypoglycemia risk than other sulfonylureas."],
    [med |-> "sitagliptin",
     contraindications |-> <<"pancreatitis", "kidney disease">>,
     interactions |-> <<"digoxin">>,
     warnings |-> "DPP-4 inhibitors rarely may increase pancreatitis risk."] >>

warning_keywords == <<"side effect", "problem", "issue", "concern">>

ContraWarning(medication, contraindication) ==
    "**WARNING**: " \o medication \o " may not be safe with " \o contraindication
        \o ". Please consult your doctor before making any changes to your medications."

InteractionAlert(medication, interaction) ==
    "**INTERACTION ALERT**: " \o medication \o " may interact with " \o interaction
        \o ". Discuss this with your pharmacist or doctor."

GeneralNote(info) == "**Note**: " \o info.warnings

RECURSIVE KeywordLoop(_, _, _, _, _)
\* for keyword in keywords: if keyword in query_lower: safety_warnings.append(...)
KeywordLoop(keywords, k, query_lower, medication, kind) ==
    IF k > Len(keywords) THEN <<>>
    ELSE (IF In(keywords[k], query_lower)
          THEN <<IF kind = "contra" THEN ContraWarning(medication, keywords[k])
                 ELSE InteractionAlert(medication, keywords[k])>>
          ELSE <<>>)
         \o KeywordLoop(keywords, k + 1, query_lower, medication, kind)

\* the body of  if known_med in med_lower, were an interaction reported once per
\* medication however many keywords match
KnownMedWarningsFirstInteraction(medication, info, query_lower) ==
    LET inter == KeywordLoop(info.interactions, 1, query_lower, medication, "inter")
    IN  KeywordLoop(info.contraindications, 1, query_lower, medication, "contra")
            \o (IF inter = <<>> THEN <<>> ELSE <<inter[1]>>)
            \o (IF \E k \in DOMAIN warning_keywords : In(warning_keywords[k], query_lower)
                THEN <<GeneralNote(info)>> ELSE <<>>)

\* the body of  if known_med in med_lower
KnownMedWarnings(medication, info, query_lower) ==
    KeywordLoop(info.contraindications, 1, query_lower, medication, "contra")
        \o KeywordLoop(info.interactions, 1, query_lower, medication, "inter")
        \o (IF \E k \in DOMAIN warning_keywords : In(warning_keywords[k], query_lower)
            THEN <<GeneralNote(info)>> ELSE <<>>)

RECURSIVE KnownMedLoop(_, _, _)
\* for known_med, info in interaction_db.items()
KnownMedLoop(k, medication, query_lower) ==
    IF k > Len(interaction_db) THEN <<>>
    ELSE (IF In(interaction_db[k].med, lower(medication))
          THEN KnownMedWarnings(medication, interaction_db[k], query_lower)
          ELSE <<>>)
         \o KnownMedLoop(k + 1, medication, query_lower)

RECURSIVE MedicationLoop(_, _, _)
\* for medication in medications
MedicationLoop(medications, k, query_lower) ==
    IF k > Len(medications) THEN <<>>
    ELSE KnownMedLoop(1, medications[k], query_lower)
            \o MedicationLoop(medications, k + 1, query_lower)

\* the function, were the general note added once per call, outside the loops
check_medication_safety_note_per_call(medications, q) ==
    LET safety_warnings ==
            (IF medications.ty = "none" THEN <<>>
             ELSE MedicationLoop(medications.v, 1, lower(q)))
            \o (IF \E k \in DOMAIN warning_keywords : In(warning_keywords[k], lower(q))
                THEN <<"**Note**: Discuss any medication concern with your doctor.">>
                ELSE <<>>)
    IN  [safety_warnings |-> safety_warnings, has_concerns |-> Len(safety_warnings) > 0]

\* not medications
NotMedications(medications) == medications.ty = "none" \/ medications.v = <<>>

check_medication_safety(medications, q) ==
    IF NotMedications(medications)
    THEN [safety_warnings |-> <<>>, has_concerns |-> FALSE]
    ELSE LET safety_warnings == MedicationLoop(medications.v, 1, lower(q))
         IN  [safety_warnings |-> safety_warnings,
              has_concerns |-> Len(safety_warnings) > 0]

----------------------------------------------------------------------------
(* Inputs *)

MaxPassages == 2
MaxWebResults == 1

RECURSIVE SeqsUpTo(_, _)
\* the sequences over S of length at most n
SeqsUpTo(S, n) ==
    IF n = 0 THEN {<<>>}
    ELSE LET shorter == SeqsUpTo(S, n - 1)
         IN  shorter \cup {Append(q, x) : q \in shorter, x \in S}

\* glucose readings a user may state, in mg/dL
GlucoseValues == {35, 120, 400, 401, 450, 1000}

\* the phrasings the hyperglycemia patterns support, for the reading n
HyperPhrases(n) ==
    {"blood sugar " \o w \o " " \o ToStr(n) : w \in {"over", "above", "more than"}}
    \cup {"Blood Sugar Over " \o ToStr(n)}
    \cup {"glucose" \o f \o ToStr(n) : f \in {" ", " is ", " reading was "}}
    \cup {"GLUCOSE: " \o ToStr(n)}
    \cup {ToStr(n) \o f \o w : f \in {" ", " mg/dL "}, w \in {"blood sugar", "glucose"}}

HypoPhrases(n) ==
    {"blood sugar " \o w \o " " \o ToStr(n) : w \in {"under", "below", "less than"}}

\* what a query may have before and after the phrase
QueryFrames == {<<"", "">>, <<"Help, my ", " - what now?">>}

\* queries that state a reading in a supported hyperglycemia phrasing
HyperQueries(n) == {f[1] \o b \o f[2] : f \in QueryFrames, b \in HyperPhrases(n)}

SymptomQueries == {
    "I have fruity breath and I keep vomiting, is it my sugar?",
    "Chest pain and I am diabetic",
    "my dad fainted, he has diabetes",
    "I feel confused and can't think, could it be diabetes",
    "cant focus since my sugar dropped",
    "what is DKA",
    "heart attack risk with high sugar",
    "fast breathing and nausea with diabetes, also chest pain, diabetic for years",
    "Difficulty breathing, confused, fainted, diabetes, glucose 135, fruity smell" }

PlainQueries == {
    "What are the early signs of type 2 diabetes?",
    "My blood sugar is 450",
    "my sugar was 450 this morning",
    "glucose\n450",
    "blood sugar over 1,000",
    "I have chest pain",
    "Can I take metformin with alcohol? Any side effect?",
    "Is insulin a problem with a beta blocker",
    "" }

Queries ==
    UNION {HyperQueries(n) : n \in GlucoseValues}
    \cup UNION {HypoPhrases(n) : n \in GlucoseValues}
    \cup SymptomQueries \cup PlainQueries

\* the questions the workflow runs are started with
WorkflowQueries == {
    "Help, my glucose is 450 - what now?",
    "Chest pain and I am diabetic",
    "Difficulty breathing, confused, fainted, diabetes, glucose 135, fruity smell",
    "What are the early signs of type 2 diabetes?",
    "My blood sugar is 450",
    "Can I take metformin with alcohol? Any side effect?" }

KbScores == {30, 50, 82}
MinScores == {50, 80}
PlainContent == "Metformin is the usual first medicine for type 2 diabetes."
ScoreContent == "Risk Score: 7 of 10\nContent: Insulin lowers blood glucose."
Passages ==
    {[score |-> sc, content |-> PlainContent, uri |-> "s3://kb/diabetes.json"] :
        sc \in KbScores}
    \cup {[score |-> 82, content |-> ScoreContent, uri |-> "s3://kb/risk.json"]}

\* what the knowledge base may do for one retrieval
KbResponses ==
    {[configured |-> FALSE, raises |-> FALSE, error |-> "", results |-> <<>>],
     [configured |-> TRUE, raises |-> TRUE, error |-> "ThrottlingException", results |-> <<>>]}
    \cup {[configured |-> TRUE, raises |-> FALSE, error |-> "", results |-> r] :
            r \in SeqsUpTo(Passages, MaxPassages)}

ScoreValues == {0, 50, 51, 100}

\* what the environment of check_chunks_relevance may do
ScorerEnvs ==
    {[ty |-> "env", imports_ok |-> FALSE, client_ok |-> TRUE, scoring_ok |-> TRUE, score |-> 0],
     [ty |-> "env", imports_ok |-> TRUE, client_ok |-> FALSE, scoring_ok |-> TRUE, score |-> 0],
     [ty |-> "env", imports_ok |-> TRUE, client_ok |-> TRUE, scoring_ok |-> FALSE, score |-> 0]}
    \cup {[ty |-> "env", imports_ok |-> TRUE, client_ok |-> TRUE, scoring_ok |-> TRUE,
            score |-> v] :
            v \in ScoreValues}

WebResults ==
    {[title |-> "Type 2 diabetes", content |-> "Symptoms include thirst.",
      url |-> "https://www.cdc.gov/diabetes", score |-> 77]}

WebResponses ==
    {[has_key |-> FALSE, raises |-> FALSE, error |-> "", results |-> <<>>],
     [has_key |-> TRUE, raises |-> TRUE, error |-> "ConnectionError", results |-> <<>>]}
    \cup {[has_key |-> TRUE, raises |-> FALSE, error |-> "", results |-> r] :
            r \in SeqsUpTo(WebResults, MaxWebResults)}

MedLists == {PyListOf(<<>>), PyListOf(<<"Metformin 500mg", "Insulin glargine">>)}

----------------------------------------------------------------------------
(* The parts of the state a specification does not use stay as they start *)

ToolsIdle ==
    /\ tool_call = NoResult
    /\ tool_out = NoResult

ScraperIdle ==
    /\ bucket = NoResult
    /\ clock = 0
    /\ runs = NoResult
    /\ started = 0

----------------------------------------------------------------------------
(* The workflow, as the system prompt prescribes it to the agent *)

Init ==
    /\ pc = "start"
    /\ query \in WorkflowQueries
    /\ emergency = NoResult
    /\ kb_out = PyNone
    /\ kb_passages = NoResult
    /\ verdict = NoResult
    /\ results_arg = PyNone
    /\ question_arg = PyNone
    /\ scorer_env = NoResult
    /\ web_out = PyNone
    /\ med_out = NoResult
    /\ answer = PyNone
    /\ calls = <<>>
    /\ medications_arg = PyNone
    /\ ToolsIdle
    /\ ScraperIdle

\* the workflow, were an emergency not to end it
ShortCircuitNever == FALSE

\* "If is_emergency is True ... Skip all other steps"
ShortCircuit == emergency.is_emergency

\* the workflow, were the web search made whatever the verdict
WebSearchAlways == TRUE

\* "If chunk_relevance_score is "no", use medical_web_search"
WebSearchNeeded == verdict.value.chunk_relevance_score = "no"

\* Step 1: Emergency Check (ALWAYS FIRST)
EmergencyCheck ==
    /\ pc = "start"
    /\ emergency' = detect_emergency(query)
    /\ calls' = Append(calls, "detect_emergency")
    /\ pc' = "checked"
    /\ UNCHANGED <<query, kb_out, kb_passages, verdict, results_arg, question_arg,
                   scorer_env, web_out, med_out, answer>>
    /\ UNCHANGED <<medications_arg, toolVars, scraperVars>>

\* Step 1: if is_emergency is True, return the emergency_response immediately
ReturnEmergency ==
    /\ pc = "checked"
    /\ ShortCircuit
    /\ answer' = emergency.emergency_response
    /\ pc' = "done"
    /\ UNCHANGED <<query, emergency, kb_out, kb_passages, verdict, results_arg,
                   question_arg, scorer_env, web_out, med_out, calls>>
    /\ UNCHANGED <<medications_arg, toolVars, scraperVars>>

\* Step 2: Retrieve Information, with the user's question exactly as stated
Retrieve ==
    /\ pc = "checked"
    /\ ~ShortCircuit
    /\ \E kb \in KbResponses, min_score \in MinScores :
        /\ kb_out' = PyStr(query_diabetes_knowledge(query, kb, min_score))
        /\ kb_passages' = [ty |-> "kb", kb |-> kb, min_score |-> min_score]
    /\ calls' = Append(calls, "query_diabetes_knowledge")
    /\ pc' = "retrieved"
    /\ UNCHANGED <<query, emergency, verdict, results_arg, question_arg, scorer_env, web_out,
                   med_out, answer>>
    /\ UNCHANGED <<medications_arg, toolVars, scraperVars>>

\* Step 3: Evaluate Relevance, passing the retrieve results and the original question
EvaluateRelevance ==
    /\ pc = "retrieved"
    /\ results_arg' = kb_out
    /\ question_arg' = PyStr(query)
    /\ \E env \in ScorerEnvs :
        /\ verdict' = check_chunks_relevance(kb_out, PyStr(query), env)
        /\ scorer_env' = env
    /\ calls' = Append(calls, "check_chunks_relevance")
    /\ pc' = "scored"
    /\ UNCHANGED <<query, emergency, kb_out, kb_passages, web_out, med_out, answer>>
    /\ UNCHANGED <<medications_arg, toolVars, scraperVars>>

\* Step 4: Conditional Web Search, if chunk_relevance_score is "no"
WebSearch ==
    /\ pc = "scored"
    /\ WebSearchNeeded
    /\ \E web \in WebResponses : web_out' = PyStr(medical_web_search(query, web))
    /\ calls' = Append(calls, "medical_web_search")
    /\ pc' = "searched"
    /\ UNCHANGED <<query, emergency, kb_out, kb_passages, verdict, results_arg,
                   question_arg, scorer_env, med_out, answer>>
    /\ UNCHANGED <<medications_arg, toolVars, scraperVars>>

\* Step 4 is skipped when chunk_relevance_score is not "no"
SkipWebSearch ==
    /\ pc = "scored"
    /\ ~WebSearchNeeded
    /\ pc' = "searched"
    /\ UNCHANGED <<query, emergency, kb_out, kb_passages, verdict, results_arg,
                   question_arg, scorer_env, web_out, med_out, answer, calls>>
    /\ UNCHANGED <<medications_arg, toolVars, scraperVars>>

\* Step 5: Medication Safety, if the question mentions medications
MedicationSafety ==
    /\ pc = "searched"
    /\ \E medications \in MedLists :
        /\ medications_arg' = medications
        /\ med_out' = [ty |-> "dict", value |-> check_medication_safety(medications, query)]
    /\ calls' = Append(calls, "check_medication_safety")
    /\ pc' = "safety_checked"
    /\ UNCHANGED <<query, emergency, kb_out, kb_passages, verdict, results_arg,
                   question_arg, scorer_env, web_out, answer>>
    /\ UNCHANGED <<toolVars, scraperVars>>

\* Step 5 is not applicable
SkipMedicationSafety ==
    /\ pc = "searched"
    /\ pc' = "safety_checked"
    /\ UNCHANGED <<query, emergency, kb_out, kb_passages, verdict, results_arg,
                   question_arg, scorer_env, web_out, med_out, answer, calls>>
    /\ UNCHANGED <<medications_arg, toolVars, scraperVars>>

\* Step 6: Generate Response from the retrieved sources
GenerateResponse ==
    /\ pc = "safety_checked"
    /\ answer' = [ty |-> "answer", kb |-> kb_out, web |-> web_out, med |-> med_out]
    /\ pc' = "done"
    /\ UNCHANGED <<query, emergency, kb_out, kb_passages, verdict, results_arg,
                   question_arg, scorer_env, web_out, med_out, calls>>
    /\ UNCHANGED <<medications_arg, toolVars, scraperVars>>

Next ==
    \/ EmergencyCheck
    \/ ReturnEmergency
    \/ Retrieve
    \/ EvaluateRelevance
    \/ WebSearch
    \/ SkipWebSearch
    \/ MedicationSafety
    \/ SkipMedicationSafety
    \/ GenerateResponse

Spec == Init /\ [][Next]_vars

----------------------------------------------------------------------------
(* check_chunks_relevance applied to bounded sets of arguments *)

ResultsInputs ==
    {PyNone, PyList, PyStr(""),
     PyStr("no blocks here"),
     PyStr(KbNothingRelevant),
     PyStr("**Source 1** (relevance: 0.82)\n" \o PlainContent \o "\n\n*Reference: s3://kb/diabetes.json*"),
     PyStr("Score: 0.82 Content: on one line"),
     PyStr("score: 0.82\ncontent: lower case"),
     PyStr("Content: first\nScore: 0.82"),
     PyStr("Score: 0.82\nContent:"),
     PyStr("Score: 0.82\nContent: Insulin lowers blood glucose."),
     PyStr("Score: 0.82\nContent: Insulin lowers blood glucose.\n\nScore: 0.40\nContent: Unrelated text.\n")}

QuestionInputs ==
    {PyNone, PyList, PyStr(""), PyStr("What does insulin do?"), PyStr("Is metformin safe?")}

InitScorer ==
    /\ pc = "scorer_call"
    /\ query = ""
    /\ emergency = NoResult
    /\ kb_out = PyNone
    /\ kb_passages = NoResult
    /\ verdict = NoResult
    /\ results_arg \in ResultsInputs
    /\ question_arg \in QuestionInputs
    /\ scorer_env = NoResult
    /\ web_out = PyNone
    /\ med_out = NoResult
    /\ answer = PyNone
    /\ calls = <<>>
    /\ medications_arg = PyNone
    /\ ToolsIdle
    /\ ScraperIdle

CallScorer ==
    /\ pc = "scorer_call"
    /\ \E env \in ScorerEnvs :
        /\ verdict' = check_chunks_relevance(results_arg, question_arg, env)
        /\ scorer_env' = env
    /\ calls' = Append(calls, "check_chunks_relevance")
    /\ pc' = "scorer_returned"
    /\ UNCHANGED <<query, emergency, kb_out, kb_passages, results_arg, question_arg,
                   web_out, med_out, answer>>
    /\ UNCHANGED <<medications_arg, toolVars, scraperVars>>

NextScorer == CallScorer

SpecScorer == InitScorer /\ [][NextScorer]_vars

----------------------------------------------------------------------------
(* detect_emergency applied to a bounded set of queries *)

InitDetect ==
    /\ pc = "detect_call"
    /\ query \in Queries
    /\ emergency = NoResult
    /\ kb_out = PyNone
    /\ kb_passages = NoResult
    /\ verdict = NoResult
    /\ results_arg = PyNone
    /\ question_arg = PyNone
    /\ scorer_env = NoResult
    /\ web_out = PyNone
    /\ med_out = NoResult
    /\ answer = PyNone
    /\ calls = <<>>
    /\ medications_arg = PyNone
    /\ ToolsIdle
    /\ ScraperIdle

CallDetect ==
    /\ pc = "detect_call"
    /\ emergency' = detect_emergency(query)
    /\ calls' = Append(calls, "detect_emergency")
    /\ pc' = "detect_returned"
    /\ UNCHANGED <<query, kb_out, kb_passages, verdict, results_arg, question_arg,
                   scorer_env, web_out, med_out, answer>>
    /\ UNCHANGED <<medications_arg, toolVars, scraperVars>>

NextDetect == CallDetect

SpecDetect == InitDetect /\ [][NextDetect]_vars

----------------------------------------------------------------------------
(* check_medication_safety applied to bounded sets of arguments *)

MedicationInputs ==
    {PyNone,
     PyListOf(<<>>),
     PyListOf(<<"Aspirin">>),
     PyListOf(<<"Metformin 500mg">>),
     PyListOf(<<"Metformin 500mg", "Insulin glargine">>),
     PyListOf(<<"Lisinopril", "GLIPIZIDE 5mg">>),
     PyListOf(<<"Metformin 500mg", "Metformin XR">>),
     PyListOf(<<"Glyburide-Metformin">>),
     PyListOf(<<"Januvia (sitagliptin)", "Atorvastatin">>)}

MedicationQueries ==
    {"",
     "What should I eat for breakfast?",
     "Can I drink alcohol?",
     "Is excessive alcohol a PROBLEM with my kidney disease?",
     "I have low blood sugar, is that a side effect?",
     "Any concern I should know about?",
     "I take warfarin and ibuprofen for my knee",
     "Dialysis and contrast dye next week",
     "My doctor added propranolol",
     "Any issue with digoxin or pancreatitis?",
     "I have a sulfa allergy and liver disease",
     "Hypoglycemia after a beta blocker: a problem?"}

InitMed ==
    /\ pc = "med_call"
    /\ query \in MedicationQueries
    /\ medications_arg \in MedicationInputs
    /\ emergency = NoResult
    /\ kb_out = PyNone
    /\ kb_passages = NoResult
    /\ verdict = NoResult
    /\ results_arg = PyNone
    /\ question_arg = PyNone
    /\ scorer_env = NoResult
    /\ web_out = PyNone
    /\ med_out = NoResult
    /\ answer = PyNone
    /\ calls = <<>>
    /\ ToolsIdle
    /\ ScraperIdle

CallMed ==
    /\ pc = "med_call"
    /\ med_out' = [ty |-> "dict", value |-> check_medication_safety(medications_arg, query)]
    /\ calls' = Append(calls, "check_medication_safety")
    /\ pc' = "med_returned"
    /\ UNCHANGED <<query, emergency, kb_out, kb_passages, verdict, results_arg,
                   question_arg, scorer_env, web_out, answer, medications_arg>>
    /\ UNCHANGED <<toolVars, scraperVars>>

NextMed == CallMed

SpecMed == InitMed /\ [][NextMed]_vars

----------------------------------------------------------------------------
(* The tools as their callers see them: a call returns a value or raises *)

\* what a call does for its caller; external_called tells whether the call
\* reached the service behind the tool
Returned(value, called) ==
    [ty |-> "outcome", kind |-> "return", value |-> value, external_called |-> called]

Raised(error, called) ==
    [ty |-> "outcome", kind |-> "raise", error |-> error, external_called |-> called]

\* os.environ.get(name, default); environ maps a name to PyNone (not set) or a string
EnvironGet(environ, name, default) ==
    IF environ[name].ty = "none" THEN default ELSE environ[name].v

IsDigits(s) == s # "" /\ \A k \in 1..Len(s) : Char(s, k) \in Digit

RECURSIVE ToInt(_)
\* int(s) for a string of decimal digits
ToInt(s) ==
    IF s = "" THEN 0
    ELSE 10 * ToInt(SubSeq(s, 1, Len(s) - 1))
            + (CHOOSE d \in 0..9 : Char(DigitChars, d + 1) = Char(s, Len(s)))

\* float(s), in hundredths, for the decimal notations digits, digits.d and
\* digits.dd; any other string here is one float() rejects with ValueError
float(s) ==
    LET t == strip(s)
        dot == NextAt(".", t, 0)
        whole == IF dot = -1 THEN t ELSE SubSeq(t, 1, dot)
        frac == IF dot = -1 THEN "" ELSE SubSeq(t, dot + 2, Len(t))
    IN  IF IsDigits(whole) /\ dot = -1
        THEN [ok |-> TRUE, v |-> 100 * ToInt(whole)]
        ELSE IF IsDigits(whole) /\ IsDigits(frac) /\ Len(frac) = 1
        THEN [ok |-> TRUE, v |-> 100 * ToInt(whole) + 10 * ToInt(frac)]
        ELSE IF IsDigits(whole) /\ IsDigits(frac) /\ Len(frac) = 2
        THEN [ok |-> TRUE, v |-> 100 * ToInt(whole) + ToInt(frac)]
        ELSE [ok |-> FALSE,
              error |-> "could not convert string to float: '" \o s \o "'"]

UpperChar(c) ==
    IF \E k \in 1..Len(LowerChars) : Char(LowerChars, k) = c
    THEN Char(UpperChars, CHOOSE k \in 1..Len(LowerChars) : Char(LowerChars, k) = c)
    ELSE c

IsLetter(c) ==
    \E k \in 1..Len(LowerChars) : Char(LowerChars, k) = c \/ Char(UpperChars, k) = c

RECURSIVE TitleFrom(_, _)
\* str.title(): a letter is upper case after a non-letter and lower case after a letter
TitleFrom(s, after_letter) ==
    IF s = "" THEN ""
    ELSE (IF after_letter THEN LowerChar(Char(s, 1)) ELSE UpperChar(Char(s, 1)))
            \o TitleFrom(SubSeq(s, 2, Len(s)), IsLetter(Char(s, 1)))

\* str.title()
str_title(s) == TitleFrom(s, FALSE)

----------------------------------------------------------------------------
(* get_weather and get_weather_forecast *)

\* What a service reached over HTTP may do for one request:
\*   kind "ok"         a 200 response with the body the tool expects (data)
\*   kind "malformed"  a 200 response whose body lacks a key the tool reads
\*   kind "status"     a response with another status code (status, text)
\*   kind "timeout"    requests.exceptions.Timeout
\*   kind "connection" requests.exceptions.ConnectionError
HttpFailures ==
    {[kind |-> "status", status |-> 404, text |-> "{\"message\":\"city not found\"}"],
     [kind |-> "status", status |-> 500, text |-> "Internal Server Error"],
     [kind |-> "timeout", text |-> "Read timed out. (read timeout=10)"],
     [kind |-> "connection", text |-> "Failed to establish a new connection"]}

WeatherNoKey ==
    "Weather functionality is not available. OpenWeatherMap API key is not configured."
ForecastNoKey ==
    "Weather forecast functionality is not available. OpenWeatherMap API key is not configured."

LocationNotFound(location) ==
    "Location '" \o location \o "' not found. Please check the spelling and try again."

unit_symbol(units) ==
    IF units = "metric" THEN "C" ELSE IF units = "imperial" THEN "F" ELSE "K"

wind_unit(units) ==
    IF units = "metric" THEN "m/s" ELSE IF units = "imperial" THEN "mph" ELSE "m/s"

\* the report of the current weather; the numbers of the body are kept as the
\* text they print as, and the pictograph and degree sign that start each line
\* and unit in the source are left out
weather_report(data, units) ==
    "\nCurrent Weather for " \o data.name \o ", " \o data.country \o ":\n"
    \o "Temperature: " \o data.temp \o unit_symbol(units)
        \o " (feels like " \o data.feels_like \o unit_symbol(units) \o ")\n"
    \o "Conditions: " \o str_title(data.description) \o "\n"
    \o "Humidity: " \o data.humidity \o "%\n"
    \o "Wind Speed: " \o data.wind_speed \o " " \o wind_unit(units) \o "\n"
    \o "Pressure: " \o data.pressure \o " hPa\n"
    \o "Visibility: " \o data.visibility \o " meters\n"

get_weather(location, units, environ, http) ==
    LET api_key == EnvironGet(environ, "OPENWEATHER_API_KEY", "")
    IN  IF api_key = "" THEN Returned(WeatherNoKey, FALSE)
        ELSE IF http.kind = "timeout"
        THEN Returned("Weather service request timed out. Please try again.", TRUE)
        ELSE IF http.kind = "connection"
        THEN Returned("Error connecting to weather service: " \o http.text, TRUE)
        ELSE IF http.kind = "malformed"
        THEN Returned("Unexpected error getting weather data: " \o http.text, TRUE)
        ELSE IF http.kind = "ok"
        THEN Returned(strip(weather_report(http.data, units)), TRUE)
        ELSE IF http.status = 404
        THEN Returned(LocationNotFound(location), TRUE)
        ELSE Returned("Weather service error: " \o ToStr(http.status) \o " - " \o http.text,
                      TRUE)

Max(a, b) == IF a > b THEN a ELSE b

RECURSIVE ForecastLoop(_, _, _, _, _)
\* for item in data['list'][:days * 8]: one entry per day, the first at or
\* after noon
ForecastLoop(items, k, current_date, units, forecast_report) ==
    IF k > Len(items) THEN forecast_report
    ELSE LET item == items[k]
         IN  IF item.date # current_date /\ item.hour >= 12
             THEN ForecastLoop(items, k + 1, item.date, units,
                    forecast_report
                        \o item.day_name \o ":\n"
                        \o "   " \o item.temp \o unit_symbol(units)
                        \o " (Low: " \o item.temp_min \o unit_symbol(units)
                        \o ", High: " \o item.temp_max \o unit_symbol(units) \o ")\n"
                        \o "   " \o str_title(item.description) \o "\n"
                        \o "   Humidity: " \o item.humidity \o "%\n\n")
             ELSE ForecastLoop(items, k + 1, current_date, units, forecast_report)

get_weather_forecast(location, days, units, environ, http) ==
    LET api_key == EnvironGet(environ, "OPENWEATHER_API_KEY", "")
        cnt == 8 * Max(1, IF days < 5 THEN days ELSE 5)
    IN  IF api_key = "" THEN Returned(ForecastNoKey, FALSE)
        ELSE IF http.kind = "timeout"
        THEN Returned("Weather forecast service request timed out. Please try again.", TRUE)
        ELSE IF http.kind = "connection"
        THEN Returned("Error connecting to weather forecast service: " \o http.text, TRUE)
        ELSE IF http.kind = "malformed"
        THEN Returned("Unexpected error getting weather forecast: " \o http.text, TRUE)
        ELSE IF http.kind = "ok"
        THEN Returned(
                strip(ForecastLoop(
                        SubSeq(http.data.list, 1,
                               IF cnt < Len(http.data.list) THEN cnt ELSE Len(http.data.list)),
                        1, "", units,
                        "Weather Forecast for " \o http.data.city.name \o ", "
                            \o http.data.city.country \o ":\n\n")),
                TRUE)
        ELSE IF http.status = 404
        THEN Returned(LocationNotFound(location), TRUE)
        ELSE Returned("Weather forecast service error: " \o ToStr(http.status) \o " - "
                        \o http.text, TRUE)

----------------------------------------------------------------------------
(* The knowledge-base tools and web_search, from their environment *)

\* query_diabetes_knowledge as its caller sees it: the environment is read,
\* the minimum score parsed, then the body above runs; kb_service is what the
\* knowledge base does for the retrieval: [raises, error, results]
QueryDiabetesKnowledge(question, environ, kb_service) ==
    LET knowledge_base_id == EnvironGet(environ, "DIABETES_KB_ID", "")
        min_score == float(EnvironGet(environ, "DIABETES_KB_MIN_SCORE", "0.5"))
        kb == [configured |-> knowledge_base_id # "",
               raises |-> kb_service.raises,
               error |-> kb_service.error,
               results |-> kb_service.results]
    IN  IF ~min_score.ok THEN Raised("ValueError: " \o min_score.error, FALSE)
        ELSE Returned(query_diabetes_knowledge(question, kb, min_score.v),
                      knowledge_base_id # "")

RECURSIVE References(_, _, _)
\* for reference in citation.get("retrievedReferences", [])
References(uris, k, idx) ==
    IF k > Len(uris) THEN ""
    ELSE ToStr(idx) \o ". " \o uris[k] \o "\n" \o References(uris, k + 1, idx)

RECURSIVE Citations(_, _)
\* for idx, citation in enumerate(citations, 1)
Citations(citations, idx) ==
    IF idx > Len(citations) THEN ""
    ELSE References(citations[idx], 1, idx) \o Citations(citations, idx + 1)

\* generation is what retrieve_and_generate does: [raises, error, text, citations],
\* text being PyNone when the response has no output text
query_diabetes_with_generation(question, environ, generation) ==
    LET knowledge_base_id == EnvironGet(environ, "DIABETES_KB_ID", "")
        answer_text == IF generation.text.ty = "none" THEN "No answer generated."
                       ELSE generation.text.v
    IN  IF knowledge_base_id = "" THEN Returned(KbNotConfigured, FALSE)
        ELSE IF generation.raises
        THEN Returned("Error generating diabetes answer: " \o generation.error, TRUE)
        ELSE IF generation.citations # <<>>
        THEN Returned(answer_text \o "\n\n**Sources:**\n"
                        \o Citations(generation.citations, 1), TRUE)
        ELSE Returned(answer_text, TRUE)

WebSearchNoKey == "Web search functionality is not available because there is no API Key."

\* requests.post is called with no timeout and outside any try: what it
\* raises leaves the tool; every response, whatever its status, is returned
\* as its text
web_search(keyword, TAVILY_API_KEY, http) ==
    IF Len(TAVILY_API_KEY) = 0 THEN Returned(WebSearchNoKey, FALSE)
    ELSE IF http.kind = "timeout" THEN Raised("Timeout: " \o http.text, TRUE)
    ELSE IF http.kind = "connection" THEN Raised("ConnectionError: " \o http.text, TRUE)
    ELSE Returned(http.text, TRUE)

\* medical_web_search as its caller sees it; search is what the search
\* service does: [raises, error, results]
MedicalWebSearch(q, TAVILY_API_KEY, search) ==
    Returned(medical_web_search(q, [has_key |-> Len(TAVILY_API_KEY) # 0,
                                    raises |-> search.raises,
                                    error |-> search.error,
                                    results |-> search.results]),
             Len(TAVILY_API_KEY) # 0)

\* check_chunks_relevance as its caller sees it
CheckChunksRelevance(results, question, env) ==
    LET out == check_chunks_relevance(results, question, env)
    IN  IF out.kind = "raise" THEN Raised(out.error, out.model_called)
        ELSE Returned(out.value, out.model_called)

----------------------------------------------------------------------------
(* The seven tools applied to bounded sets of configurations and services *)

WeatherData ==
    [name |-> "London", country |-> "GB", temp |-> "11.2", feels_like |-> "10.1",
     humidity |-> "81", pressure |-> "1012", description |-> "light rain",
     wind_speed |-> "4.6", visibility |-> "10000"]

ForecastItem(date, hour, day_name) ==
    [date |-> date, hour |-> hour, day_name |-> day_name, temp |-> "12.0",
     temp_min |-> "9.5", temp_max |-> "13.1", description |-> "broken clouds",
     humidity |-> "70"]

ForecastData ==
    [city |-> [name |-> "London", country |-> "GB"],
     list |-> <<ForecastItem("2025-01-06", 9, "Monday, January 06"),
                ForecastItem("2025-01-06", 12, "Monday, January 06"),
                ForecastItem("2025-01-06", 15, "Monday, January 06"),
                ForecastItem("2025-01-07", 12, "Tuesday, January 07")>>]

WeatherServices ==
    HttpFailures \cup {[kind |-> "ok", data |-> WeatherData],
                       [kind |-> "malformed", text |-> "'main'"]}

ForecastServices ==
    HttpFailures \cup {[kind |-> "ok", data |-> ForecastData],
                       [kind |-> "malformed", text |-> "'city'"]}

SearchServices ==
    HttpFailures \cup {[kind |-> "ok", text |-> "{\"query\":\"diabetes\",\"results\":[]}"]}

WeatherEnvirons ==
    {[OPENWEATHER_API_KEY |-> k] : k \in {PyNone, PyStr(""), PyStr("owm-key")}}

KbEnvirons ==
    {[DIABETES_KB_ID |-> id, DIABETES_KB_MIN_SCORE |-> ms] :
        id \in {PyNone, PyStr("KB12345678")},
        ms \in {PyNone, PyStr("0.8"), PyStr("0.3"), PyStr(""), PyStr("high")}}

TavilyKeys == {"", "tvly-key"}

KbServices ==
    {[raises |-> TRUE, error |-> "ThrottlingException", results |-> <<>>],
     [raises |-> TRUE, error |-> "Read timeout on endpoint URL", results |-> <<>>]}
    \cup {[raises |-> FALSE, error |-> "", results |-> r] :
            r \in SeqsUpTo(Passages, MaxPassages)}

Generations ==
    {[raises |-> TRUE, error |-> "ThrottlingException", text |-> PyNone, citations |-> <<>>],
     [raises |-> FALSE, error |-> "", text |-> PyNone, citations |-> <<>>],
     [raises |-> FALSE, error |-> "", text |-> PyStr("Metformin lowers glucose."),
      citations |-> <<>>],
     [raises |-> FALSE, error |-> "", text |-> PyStr("Metformin lowers glucose."),
      citations |-> << <<"s3://kb/diabetes.json", "s3://kb/risk.json">>, <<>>,
                       <<"s3://kb/diabetes.json">> >>]}

MedicalSearches ==
    {[raises |-> TRUE, error |-> "ConnectionError", results |-> <<>>],
     [raises |-> TRUE, error |-> "HTTPError: 432 Client Error", results |-> <<>>]}
    \cup {[raises |-> FALSE, error |-> "", results |-> r] :
            r \in SeqsUpTo(WebResults, MaxWebResults)}

ScorerCalls ==
    {[tool |-> "check_chunks_relevance",
      results |-> PyStr("Score: 0.82\nContent: Insulin lowers blood glucose."),
      question |-> q, env |-> env] :
        q \in {PyStr("What does insulin do?"), PyNone}, env \in ScorerEnvs}

ToolCalls ==
    {[tool |-> "get_weather", location |-> "London, UK", units |-> u,
      environ |-> e, service |-> s] :
        u \in {"metric", "imperial"}, e \in WeatherEnvirons, s \in WeatherServices}
    \cup {[tool |-> "get_weather_forecast", location |-> "London, UK", days |-> d,
           units |-> "metric", environ |-> e, service |-> s] :
            d \in {0, 1, 9}, e \in WeatherEnvirons, s \in ForecastServices}
    \cup {[tool |-> "query_diabetes_knowledge", question |-> "What is metformin?",
           environ |-> e, service |-> s] :
            e \in KbEnvirons, s \in KbServices}
    \cup {[tool |-> "query_diabetes_with_generation", question |-> "What is metformin?",
           environ |-> e, service |-> s] :
            e \in KbEnvirons, s \in Generations}
    \cup {[tool |-> "web_search", keyword |-> "diabetes", key |-> k, service |-> s] :
            k \in TavilyKeys, s \in SearchServices}
    \cup {[tool |-> "medical_web_search", q |-> "diabetes diet", key |-> k,
           service |-> s] :
            k \in TavilyKeys, s \in MedicalSearches}
    \cup ScorerCalls

InitTools ==
    /\ pc = "tool_call"
    /\ tool_call \in ToolCalls
    /\ tool_out = NoResult
    /\ query = ""
    /\ emergency = NoResult
    /\ kb_out = PyNone
    /\ kb_passages = NoResult
    /\ verdict = NoResult
    /\ results_arg = PyNone
    /\ question_arg = PyNone
    /\ scorer_env = NoResult
    /\ web_out = PyNone
    /\ med_out = NoResult
    /\ answer = PyNone
    /\ calls = <<>>
    /\ medications_arg = PyNone
    /\ ScraperIdle

\* the tool is entered and runs until it returns or raises
Finish(tool, out) ==
    /\ pc = "tool_call"
    /\ tool_call.tool = tool
    /\ tool_out' = out
    /\ calls' = Append(calls, tool)
    /\ pc' = IF out.kind = "raise" THEN "tool_raised" ELSE "tool_returned"
    /\ UNCHANGED <<query, emergency, kb_out, kb_passages, verdict, results_arg,
                   question_arg, scorer_env, web_out, med_out, answer,
                   medications_arg, tool_call>>
    /\ UNCHANGED scraperVars

CallGetWeather ==
    /\ tool_call.tool = "get_weather"
    /\ Finish("get_weather",
              get_weather(tool_call.location, tool_call.units, tool_call.environ,
                          tool_call.service))

CallGetWeatherForecast ==
    /\ tool_call.tool = "get_weather_forecast"
    /\ Finish("get_weather_forecast",
              get_weather_forecast(tool_call.location, tool_call.days, tool_call.units,
                                   tool_call.environ, tool_call.service))

CallQueryDiabetesKnowledge ==
    /\ tool_call.tool = "query_diabetes_knowledge"
    /\ Finish("query_diabetes_knowledge",
              QueryDiabetesKnowledge(tool_call.question, tool_call.environ,
                                     tool_call.service))

CallQueryDiabetesWithGeneration ==
    /\ tool_call.tool = "query_diabetes_with_generation"
    /\ Finish("query_diabetes_with_generation",
              query_diabetes_with_generation(tool_call.question, tool_call.environ,
                                             tool_call.service))

CallWebSearch ==
    /\ tool_call.tool = "web_search"
    /\ Finish("web_search",
              web_search(tool_call.keyword, tool_call.key, tool_call.service))

CallMedicalWebSearch ==
    /\ tool_call.tool = "medical_web_search"
    /\ Finish("medical_web_search",
              MedicalWebSearch(tool_call.q, tool_call.key, tool_call.service))

CallCheckChunksRelevance ==
    /\ tool_call.tool = "check_chunks_relevance"
    /\ Finish("check_chunks_relevance",
              CheckChunksRelevance(tool_call.results, tool_call.question, tool_call.env))

NextTools ==
    \/ CallGetWeather
    \/ CallGetWeatherForecast
    \/ CallQueryDiabetesKnowledge
    \/ CallQueryDiabetesWithGeneration
    \/ CallWebSearch
    \/ CallMedicalWebSearch
    \/ CallCheckChunksRelevance

SpecTools == InitTools /\ [][NextTools]_vars

----------------------------------------------------------------------------
(* The incremental scraper (diabetes_scraper_scheduler.py) *)

MaxRuns == 2        \* scraper runs started in all

\* the scraper invocations that may be in progress at the same time
Runs == {1, 2}

Min(a, b) == IF a < b THEN a ELSE b

\* hashlib.md5(s.encode()).hexdigest() on the strings that occur
Md5Table ==
    <<[s |-> "https://www.webmd.com/diabetes/type-2-diabetes-symptoms",
       hexdigest |-> "4fd5cef20f6ce936a415e924d660901b"],
      [s |-> "https://www.WebMD.com/diabetes/guide/insulin",
       hexdigest |-> "729b1858246a6903cab435b7b8df8250"],
      [s |-> "https://www.healthline.com/health/diabetes",
       hexdigest |-> "2be94239dd1f2e0beb5801925f8644fa"],
      [s |-> "Type 2 diabetes symptoms include thirst.",
       hexdigest |-> "3226918301993743f9daac3fbb4490e5"],
      [s |-> "Updated: symptoms include thirst and fatigue.",
       hexdigest |-> "c06f7ca9ba1f674cf67968e8fe04ad81"],
      [s |-> "", hexdigest |-> "d41d8cd98f00b204e9800998ecf8427e"]>>

md5(s) == Md5Table[CHOOSE k \in DOMAIN Md5Table : Md5Table[k].s = s].hexdigest

\* the elements of a list
SeqToSet(xs) == {xs[k] : k \in DOMAIN xs}

\* list(a_set): the elements in some order
SetToSeq(S) == CHOOSE xs \in [1..Cardinality(S) -> S] : SeqToSet(xs) = S

TwoDigits(n) == IF n < 10 THEN "0" \o ToStr(n) ELSE ToStr(n)

\* datetime.now().isoformat(), the clock counting the seconds of one minute
IsoFormat(t) == "2025-01-06T03:00:" \o TwoDigits(t)

\* datetime.now().strftime("%Y%m%d_%H%M%S")
Timestamp(t) == "20250106_0300" \o TwoDigits(t)

\* c.isalnum() or c in (' ', '-', '_')
TitleChar(c) ==
    \/ \E k \in 1..Len(UpperChars) : Char(UpperChars, k) = c \/ Char(LowerChars, k) = c
    \/ c \in Digit
    \/ c \in {" ", "-", "_"}

RECURSIVE KeepTitleChars(_)
KeepTitleChars(s) ==
    IF s = "" THEN ""
    ELSE (IF TitleChar(Char(s, 1)) THEN Char(s, 1) ELSE "")
            \o KeepTitleChars(SubSeq(s, 2, Len(s)))

RECURSIVE ReplaceSpaces(_)
\* s.replace(' ', '_')
ReplaceSpaces(s) ==
    IF s = "" THEN ""
    ELSE (IF Char(s, 1) = " " THEN "_" ELSE Char(s, 1))
            \o ReplaceSpaces(SubSeq(s, 2, Len(s)))

clean_title(title) ==
    ReplaceSpaces(strip(KeepTitleChars(SubSeq(title, 1, Min(50, Len(title))))))

\* what a search may find on the site: a page, the page after an update, and
\* the text of the page under a second address
SymptomsPage ==
    [url |-> "https://www.webmd.com/diabetes/type-2-diabetes-symptoms",
     title |-> "Type 2 Diabetes: Symptoms & Causes",
     raw_content |-> "Type 2 diabetes symptoms include thirst.",
     is_new |-> FALSE, is_updated |-> FALSE]

SymptomsPageUpdated ==
    [SymptomsPage EXCEPT !.raw_content = "Updated: symptoms include thirst and fatigue."]

MirrorPage ==
    [SymptomsPage EXCEPT !.url = "https://www.WebMD.com/diabetes/guide/insulin",
                         !.title = "Insulin"]

Hits == {SymptomsPage, SymptomsPageUpdated, MirrorPage}

\* a page of another site, as a search may return it
HealthlinePage ==
    [SymptomsPage EXCEPT !.url = "https://www.healthline.com/health/diabetes",
                         !.title = "Diabetes"]

\* the result lists a search may give
ResultLists ==
    {<<>>, <<SymptomsPage>>, <<SymptomsPageUpdated>>, <<MirrorPage>>,
     <<SymptomsPage, MirrorPage>>}

\* 'webmd.com' in url.lower() and the cleaned title, for the URLs and titles of Hits
OnSite ==
    [url \in {h.url : h \in Hits \cup {HealthlinePage}} |-> In("webmd.com", lower(url))]

CleanTitles == [title \in {h.title : h \in Hits} |-> clean_title(title)]

\* f"{s3_prefix}/{timestamp}_{url_hash[:8]}_{clean_title}.json"
object_key(s3_prefix, timestamp, url_hash, title) ==
    s3_prefix \o "/" \o timestamp \o "_" \o SubSeq(url_hash, 1, Min(8, Len(url_hash)))
        \o "_" \o CleanTitles[title] \o ".json"

(* ContentTracker *)

EmptyTracker(now) ==
    [url_hashes |-> {}, content_hashes |-> {}, last_run |-> IsoFormat(now),
     total_documents |-> 0]

(* Object storage: the tracker object, the document objects by key, and, as a
   history, the content hashes of all documents ever put *)

EmptyBucket == [ty |-> "bucket", tracker |-> PyNone, docs |-> {}, written |-> {}]

\* the load, were an error of the storage answered by reading again
load_content_tracker_retried(b, raises, now) ==
    IF b.tracker = PyNone THEN EmptyTracker(now)
    ELSE [url_hashes |-> SeqToSet(b.tracker.v.url_hashes),
          content_hashes |-> SeqToSet(b.tracker.v.content_hashes),
          last_run |-> b.tracker.v.last_run,
          total_documents |-> b.tracker.v.total_documents]

load_content_tracker(b, raises, now) ==
    IF raises THEN EmptyTracker(now)
    ELSE IF b.tracker = PyNone THEN EmptyTracker(now)
    ELSE [url_hashes |-> SeqToSet(b.tracker.v.url_hashes),
          content_hashes |-> SeqToSet(b.tracker.v.content_hashes),
          last_run |-> b.tracker.v.last_run,
          total_documents |-> b.tracker.v.total_documents]

\* tracker.dict() with the sets converted to lists
tracker_data(tracker) ==
    [url_hashes |-> SetToSeq(tracker.url_hashes),
     content_hashes |-> SetToSeq(tracker.content_hashes),
     last_run |-> tracker.last_run,
     total_documents |-> tracker.total_documents]

\* the tracker object, were a save to add to what is stored instead of replacing it
put_tracker_merged(b, tracker) ==
    LET old == load_content_tracker(b, FALSE, 0)
    IN  [b EXCEPT !.tracker =
            [ty |-> "json",
             v |-> tracker_data(
                    [tracker EXCEPT !.url_hashes = @ \cup old.url_hashes,
                                    !.content_hashes = @ \cup old.content_hashes])]]

\* s3_client.put_object(Bucket=bucket_name, Key=tracker_key, ...)
put_tracker(b, tracker) ==
    [b EXCEPT !.tracker = [ty |-> "json", v |-> tracker_data(tracker)]]

\* the save, were the object replaced before the put reports its error
save_content_tracker_half_done(tracker, b, raises) ==
    [ok |-> ~raises, bucket |-> put_tracker(b, tracker)]

\* returns True with the object replaced, or False with the storage as it was
save_content_tracker(tracker, b, raises) ==
    IF raises THEN [ok |-> FALSE, bucket |-> b]
    ELSE [ok |-> TRUE, bucket |-> put_tracker(b, tracker)]

\* s3_client.put_object(Bucket=bucket_name, Key=object_key, ...) of a document
put_document(b, key, doc) ==
    [b EXCEPT !.docs = {o \in @ : o.key # key} \cup {[key |-> key, doc |-> doc]},
              !.written = @ \cup {doc.content_hash}]

(* tavily_search_webmd_diabetes_incremental *)

SearchError(msg) == <<[error |-> msg]>>

RECURSIVE FilterResultsByUrl(_, _, _)
\* the filter, were a result with a known URL dropped whatever its content
FilterResultsByUrl(results, k, tracker) ==
    IF k > Len(results) THEN <<>>
    ELSE (IF OnSite[results[k].url] /\ md5(results[k].url) \notin tracker.url_hashes
          THEN <<[results[k] EXCEPT !.is_new = TRUE]>>
          ELSE <<>>)
         \o FilterResultsByUrl(results, k + 1, tracker)

RECURSIVE FilterResults(_, _, _)
\* for result in results: ... new_results.append(result)
FilterResults(results, k, tracker) ==
    IF k > Len(results) THEN <<>>
    ELSE LET result == results[k]
             url_hash == md5(result.url)
             content_hash == md5(result.raw_content)
         IN  (IF OnSite[result.url]
              THEN IF url_hash \in tracker.url_hashes
                   THEN IF content_hash \notin tracker.content_hashes
                        THEN <<[result EXCEPT !.is_updated = TRUE]>>
                        ELSE <<>>
                   ELSE <<[result EXCEPT !.is_new = TRUE]>>
              ELSE <<>>)
             \o FilterResults(results, k + 1, tracker)

tavily_search_webmd_diabetes_incremental(q, tracker, response) ==
    IF ~response.has_key
    THEN SearchError("TAVILY_API_KEY environment variable not set")
    ELSE IF response.raises
    THEN SearchError("Tavily search failed: " \o response.error)
    ELSE FilterResults(response.results, 1, tracker)

----------------------------------------------------------------------------
(* tavily_search_webmd_diabetes_incremental applied to bounded sets of trackers
   and search responses *)

MaxHits == 2

\* trackers that know some of the URLs and some of the contents
SearchTrackers ==
    {[url_hashes |-> u, content_hashes |-> c, last_run |-> IsoFormat(0),
      total_documents |-> Cardinality(c)] :
        u \in SUBSET {md5(SymptomsPage.url), md5(MirrorPage.url)},
        c \in SUBSET {md5(SymptomsPage.raw_content), md5(SymptomsPageUpdated.raw_content)}}

SearchCalls ==
    {[tool |-> "tavily_search_webmd_diabetes_incremental", q |-> "diabetes symptoms",
      tracker |-> t, response |-> response] :
        t \in SearchTrackers,
        response \in
            {[has_key |-> FALSE, raises |-> FALSE, error |-> "", results |-> <<>>],
             [has_key |-> TRUE, raises |-> TRUE, error |-> "503 Server Error",
              results |-> <<>>]}
            \cup {[has_key |-> TRUE, raises |-> FALSE, error |-> "", results |-> r] :
                    r \in SeqsUpTo(Hits \cup {HealthlinePage}, MaxHits)}}

InitSearch ==
    /\ pc = "tool_call"
    /\ tool_call \in SearchCalls
    /\ tool_out = NoResult
    /\ query = ""
    /\ emergency = NoResult
    /\ kb_out = PyNone
    /\ kb_passages = NoResult
    /\ verdict = NoResult
    /\ results_arg = PyNone
    /\ question_arg = PyNone
    /\ scorer_env = NoResult
    /\ web_out = PyNone
    /\ med_out = NoResult
    /\ answer = PyNone
    /\ calls = <<>>
    /\ medications_arg = PyNone
    /\ ScraperIdle

CallSearch ==
    Finish("tavily_search_webmd_diabetes_incremental",
           Returned(tavily_search_webmd_diabetes_incremental(
                        tool_call.q, tool_call.tracker, tool_call.response),
                    tool_call.response.has_key))

NextSearch == CallSearch

SpecSearch == InitSearch /\ [][NextSearch]_vars

(* incremental_scrape_diabetes_webmd *)

\* the search_queries argument
QueryLists == {<<"diabetes symptoms">>}

\* what the search service may do for one query
SearchResponses ==
    {[has_key |-> TRUE, raises |-> TRUE, error |-> "503 Server Error", results |-> <<>>]}
    \cup {[has_key |-> TRUE, raises |-> FALSE, error |-> "", results |-> r] :
            r \in ResultLists}

\* a run that has not started
IdleRun ==
    [pc |-> "idle", force_update |-> FALSE, search_queries |-> <<>>, qi |-> 0,
     tracker |-> NoResult, loaded |-> NoResult,
     search_results |-> <<>>, ri |-> 0,
     new_documents_found |-> 0, new_documents_scraped |-> 0, updated_documents |-> 0,
     skipped_existing |-> 0, s3_objects_created |-> <<>>, s3_objects_updated |-> <<>>,
     errors |-> <<>>, wake |-> 0, events |-> <<>>, result |-> NoResult]

\* the run, were it to return after the last query without saving the tracker
AfterQueryNoSave(run) ==
    IF run.qi + 1 > Len(run.search_queries)
    THEN [run EXCEPT !.qi = @ + 1, !.pc = "done"]
    ELSE [run EXCEPT !.qi = @ + 1, !.pc = "searching"]

\* line 277: where the run goes on after the query at qi, to the next query
\* or, after the last one, to the save of the tracker
AfterQuery(run) ==
    IF run.qi + 1 > Len(run.search_queries)
    THEN [run EXCEPT !.qi = @ + 1, !.pc = "saving"]
    ELSE [run EXCEPT !.qi = @ + 1, !.pc = "searching"]

\* lines 265-274: the tracker is loaded and the counters start at zero;
\* loaded keeps the tracker as it was loaded, events the operations of the run
\* the first event keeps the tracker object as it was stored at the load, and
\* whether an error other than a missing key kept the run from getting it
BeginRun(force_update, search_queries, b, raises, now) ==
    LET tracker == load_content_tracker(b, raises, now)
    IN  AfterQuery([IdleRun EXCEPT
            !.force_update = force_update,
            !.search_queries = search_queries, !.qi = 0,
            !.tracker = tracker, !.loaded = tracker,
            !.events = <<[op |-> "get_tracker", found |-> b.tracker,
                          failed |-> raises /\ b.tracker # PyNone]>>])

\* where the run goes on after the result at ri: the next result, or the next query
AfterResult(run) ==
    IF run.ri + 1 > Len(run.search_results)
    THEN AfterQuery(run)
    ELSE [run EXCEPT !.ri = @ + 1]

\* lines 281-287: one search, with its results taken up or its error recorded
Searched(run, offered, search_results) ==
    LET logged == [run EXCEPT !.events =
                        Append(@, [op |-> "search", offered |-> offered])]
    IN  IF search_results # <<>> /\ "error" \in DOMAIN search_results[1]
        THEN AfterQuery([logged EXCEPT !.errors =
                Append(@, "Search failed for '" \o run.search_queries[run.qi] \o "': "
                            \o search_results[1].error)])
        ELSE LET found == [logged EXCEPT
                            !.new_documents_found = @ + Len(search_results),
                            !.search_results = search_results, !.ri = 1]
             IN  IF search_results = <<>> THEN AfterQuery(found)
                 ELSE [found EXCEPT !.pc = "processing"]

\* the test of line 300, were force_update not looked at
AlreadyProcessedIgnoringForce(run, content_hash) ==
    content_hash \in run.tracker.content_hashes

\* line 300
AlreadyProcessed(run, content_hash) ==
    ~run.force_update /\ content_hash \in run.tracker.content_hashes

\* lines 301-302
Skipped(run, result) ==
    AfterResult([run EXCEPT
        !.skipped_existing = @ + 1,
        !.events = Append(@, [op |-> "skip", url |-> result.url,
                               content_hash |-> md5(result.raw_content)])])

\* lines 347-362: the document was stored
\* the run, were every stored document counted as a new one
StoredCountedAsNew(run, result, key, now) ==
    LET counted ==
            IF result.is_updated
            THEN [run EXCEPT !.new_documents_scraped = @ + 1,
                             !.s3_objects_updated = Append(@, key)]
            ELSE [run EXCEPT !.new_documents_scraped = @ + 1,
                             !.s3_objects_created = Append(@, key)]
    IN  AfterResult([counted EXCEPT
            !.tracker.url_hashes = @ \cup {md5(result.url)},
            !.tracker.content_hashes = @ \cup {md5(result.raw_content)},
            !.tracker.total_documents = @ + 1,
            !.wake = now + 1,
            !.events = Append(@, [op |-> "put_document", ok |-> TRUE, key |-> key,
                                   url |-> result.url,
                                   content_hash |-> md5(result.raw_content)])])

Stored(run, result, key, now) ==
    LET counted ==
            IF result.is_updated
            THEN [run EXCEPT !.updated_documents = @ + 1,
                             !.s3_objects_updated = Append(@, key)]
            ELSE [run EXCEPT !.new_documents_scraped = @ + 1,
                             !.s3_objects_created = Append(@, key)]
    IN  AfterResult([counted EXCEPT
            !.tracker.url_hashes = @ \cup {md5(result.url)},
            !.tracker.content_hashes = @ \cup {md5(result.raw_content)},
            !.tracker.total_documents = @ + 1,
            !.wake = now + 1,
            !.events = Append(@, [op |-> "put_document", ok |-> TRUE, key |-> key,
                                   url |-> result.url,
                                   content_hash |-> md5(result.raw_content)])])

\* the run, were the tracker updated before the outcome of the put is known
StoreFailedAfterUpdate(run, result, key, error) ==
    AfterResult([run EXCEPT
        !.tracker.url_hashes = @ \cup {md5(result.url)},
        !.tracker.content_hashes = @ \cup {md5(result.raw_content)},
        !.tracker.total_documents = @ + 1,
        !.errors = Append(@, "Error processing " \o result.url \o ": " \o error),
        !.events = Append(@, [op |-> "put_document", ok |-> FALSE, key |-> key,
                               url |-> result.url,
                               content_hash |-> md5(result.raw_content)])])

\* the run, were the error of a put to end it
StoreFailedEndsRun(run, result, key, error) ==
    [run EXCEPT
        !.errors = Append(@, "Error processing " \o result.url \o ": " \o error),
        !.events = Append(@, [op |-> "put_document", ok |-> FALSE, key |-> key,
                               url |-> result.url,
                               content_hash |-> md5(result.raw_content)]),
        !.pc = "done"]

\* lines 364-366: the put raised
StoreFailed(run, result, key, error) ==
    AfterResult([run EXCEPT
        !.errors = Append(@, "Error processing " \o result.url \o ": " \o error),
        !.events = Append(@, [op |-> "put_document", ok |-> FALSE, key |-> key,
                               url |-> result.url,
                               content_hash |-> md5(result.raw_content)])])

\* lines 305-313, without scraped_at
doc_data(result) ==
    [url |-> result.url, title |-> result.title, content |-> result.raw_content,
     content_hash |-> md5(result.raw_content),
     is_update |-> result.is_updated, is_new |-> result.is_new]

\* lines 375-384
IncrementalScrapingResult(run) ==
    [ty |-> "result",
     new_documents_found |-> run.new_documents_found,
     new_documents_scraped |-> run.new_documents_scraped,
     updated_documents |-> run.updated_documents,
     skipped_existing |-> run.skipped_existing,
     s3_objects_created |-> run.s3_objects_created,
     s3_objects_updated |-> run.s3_objects_updated,
     errors |-> run.errors]

InitScraper ==
    /\ pc = "scraper"
    /\ query = ""
    /\ emergency = NoResult
    /\ kb_out = PyNone
    /\ kb_passages = NoResult
    /\ verdict = NoResult
    /\ results_arg = PyNone
    /\ question_arg = PyNone
    /\ scorer_env = NoResult
    /\ web_out = PyNone
    /\ med_out = NoResult
    /\ answer = PyNone
    /\ calls = <<>>
    /\ medications_arg = PyNone
    /\ ToolsIdle
    /\ bucket = EmptyBucket
    /\ clock = 0
    /\ runs = [r \in Runs |-> IdleRun]
    /\ started = 0

\* incremental_scrape_diabetes_webmd is invoked: the tracker is loaded
StartRun(r) ==
    /\ runs[r].pc \in {"idle", "done"}
    /\ \A other \in Runs : other < r => runs[other].pc \notin {"idle", "done"}
    /\ started < MaxRuns
    /\ \E force_update \in BOOLEAN, search_queries \in QueryLists, raises \in BOOLEAN :
        runs' = [other \in Runs |->
                    IF other = r
                    THEN BeginRun(force_update, search_queries, bucket, raises, clock)
                    ELSE IF runs[other].pc = "done" THEN IdleRun
                    ELSE runs[other]]
    /\ started' = started + 1
    /\ UNCHANGED <<bucket, clock>>
    /\ UNCHANGED <<flowVars, toolVars>>

\* one query of the run is searched
SearchQuery(r) ==
    /\ runs[r].pc = "searching"
    /\ clock >= runs[r].wake
    /\ \E response \in SearchResponses :
        runs' = [runs EXCEPT ![r] =
                    Searched(runs[r], response.results,
                             tavily_search_webmd_diabetes_incremental(
                                runs[r].search_queries[runs[r].qi], runs[r].tracker,
                                response))]
    /\ UNCHANGED <<bucket, clock, started>>
    /\ UNCHANGED <<flowVars, toolVars>>

\* the result the run is at
CurrentResult(r) == runs[r].search_results[runs[r].ri]

\* the object key the result the run is at would be stored under now
CurrentKey(r) ==
    object_key("diabetes-webmd", Timestamp(clock), md5(CurrentResult(r).url),
               CurrentResult(r).title)

\* a result whose content is already known is skipped
SkipDocument(r) ==
    /\ runs[r].pc = "processing"
    /\ clock >= runs[r].wake
    /\ AlreadyProcessed(runs[r], md5(CurrentResult(r).raw_content))
    /\ runs' = [runs EXCEPT ![r] = Skipped(runs[r], CurrentResult(r))]
    /\ UNCHANGED <<bucket, clock, started>>
    /\ UNCHANGED <<flowVars, toolVars>>

\* a result is stored as a document and the tracker of the run is updated
StoreDocument(r) ==
    /\ runs[r].pc = "processing"
    /\ clock >= runs[r].wake
    /\ ~AlreadyProcessed(runs[r], md5(CurrentResult(r).raw_content))
    /\ bucket' = put_document(bucket, CurrentKey(r), doc_data(CurrentResult(r)))
    /\ runs' = [runs EXCEPT ![r] = Stored(runs[r], CurrentResult(r), CurrentKey(r), clock)]
    /\ UNCHANGED <<clock, started>>
    /\ UNCHANGED <<flowVars, toolVars>>

\* the put of a document raises
StoreDocumentFails(r) ==
    /\ runs[r].pc = "processing"
    /\ clock >= runs[r].wake
    /\ ~AlreadyProcessed(runs[r], md5(CurrentResult(r).raw_content))
    /\ runs' = [runs EXCEPT ![r] =
                    StoreFailed(runs[r], CurrentResult(r), CurrentKey(r),
                                "An error occurred (ServiceUnavailable)")]
    /\ UNCHANGED <<bucket, clock, started>>
    /\ UNCHANGED <<flowVars, toolVars>>

\* lines 368-384: the tracker is saved and the run returns its result
SaveAndReturn(r) ==
    /\ runs[r].pc = "saving"
    /\ clock >= runs[r].wake
    /\ \E raises \in BOOLEAN :
        LET tracker == [runs[r].tracker EXCEPT !.last_run = IsoFormat(clock)]
            saved == save_content_tracker(tracker, bucket, raises)
        IN  /\ bucket' = saved.bucket
            /\ runs' = [runs EXCEPT ![r] =
                    [runs[r] EXCEPT
                        !.tracker = tracker,
                        !.pc = "done",
                        !.events = Append(@, [op |-> "put_tracker", ok |-> saved.ok]),
                        !.result = IncrementalScrapingResult(runs[r])]]
    /\ UNCHANGED <<clock, started>>
    /\ UNCHANGED <<flowVars, toolVars>>

\* a second passes while a run waits in time.sleep(1)
Tick ==
    /\ pc = "scraper"
    /\ \E r \in Runs : runs[r].wake > clock
    /\ clock' = clock + 1
    /\ UNCHANGED <<bucket, runs, started>>
    /\ UNCHANGED <<flowVars, toolVars>>

NextScraper ==
    \/ \E r \in Runs : StartRun(r)
    \/ \E r \in Runs : SearchQuery(r)
    \/ \E r \in Runs : SkipDocument(r)
    \/ \E r \in Runs : StoreDocument(r)
    \/ \E r \in Runs : StoreDocumentFails(r)
    \/ \E r \in Runs : SaveAndReturn(r)
    \/ Tick

SpecScraper == InitScraper /\ [][NextScraper]_vars

----------------------------------------------------------------------------
(* One run of the scraper with several search queries, on a bucket that is
   empty or holds what an earlier run left *)

LongQueryLists == {<<"diabetes symptoms", "insulin">>}

\* the bucket after a run that stored SymptomsPage in second 0 and saved its tracker
BucketAfterOneRun ==
    save_content_tracker(
        [url_hashes |-> {md5(SymptomsPage.url)},
         content_hashes |-> {md5(SymptomsPage.raw_content)},
         last_run |-> IsoFormat(1), total_documents |-> 1],
        put_document(EmptyBucket,
                     object_key("diabetes-webmd", Timestamp(0), md5(SymptomsPage.url),
                                SymptomsPage.title),
                     doc_data([SymptomsPage EXCEPT !.is_new = TRUE])),
        FALSE).bucket

InitLongRun ==
    /\ pc = "scraper"
    /\ query = ""
    /\ emergency = NoResult
    /\ kb_out = PyNone
    /\ kb_passages = NoResult
    /\ verdict = NoResult
    /\ results_arg = PyNone
    /\ question_arg = PyNone
    /\ scorer_env = NoResult
    /\ web_out = PyNone
    /\ med_out = NoResult
    /\ answer = PyNone
    /\ calls = <<>>
    /\ medications_arg = PyNone
    /\ ToolsIdle
    /\ bucket \in {EmptyBucket, BucketAfterOneRun}
    /\ clock = (IF bucket = EmptyBucket THEN 0 ELSE 1)
    /\ runs = [r \in Runs |-> IdleRun]
    /\ started = 0

\* incremental_scrape_diabetes_webmd is invoked once, with several queries
StartLongRun ==
    /\ started = 0
    /\ \E force_update \in BOOLEAN, search_queries \in LongQueryLists, raises \in BOOLEAN :
        runs' = [runs EXCEPT ![1] =
                    BeginRun(force_update, search_queries, bucket, raises, clock)]
    /\ started' = 1
    /\ UNCHANGED <<bucket, clock>>
    /\ UNCHANGED <<flowVars, toolVars>>

NextLongRun ==
    \/ StartLongRun
    \/ SearchQuery(1)
    \/ SkipDocument(1)
    \/ StoreDocument(1)
    \/ StoreDocumentFails(1)
    \/ SaveAndReturn(1)
    \/ Tick

SpecLongRun == InitLongRun /\ [][NextLongRun]_vars

----------------------------------------------------------------------------
(* Properties *)

Called(tool) == \E k \in DOMAIN calls : calls[k] = tool

\* C1: detect_emergency is the first tool of a run, and once it has returned
\* is_emergency = True no other tool is called in that run: the only step left
\* is to return the emergency_response, which is what the run ends with.
C1_EmergencyShortCircuits ==
    /\ calls # <<>> => calls[1] = "detect_emergency"
    /\ (emergency.ty = "dict" /\ emergency.is_emergency) =>
        /\ calls = <<"detect_emergency">>
        /\ pc \in {"checked", "done"}
        /\ pc = "checked" => ENABLED ReturnEmergency /\ ~ENABLED Retrieve
        /\ pc = "done" => answer = emergency.emergency_response

C1_Witness ==
    /\ pc = "done"
    /\ emergency.ty = "dict" /\ emergency.is_emergency
    /\ answer = emergency.emergency_response
    /\ calls = <<"detect_emergency">>

\* C2: a query that states a reading above 400 mg/dL in one of the phrasings the
\* hyperglycemia patterns support (in any letter case, with text before and
\* after it) is reported as an emergency with severe_hyperglycemia among the types.
C2_HyperglycemiaDetected ==
    \A n \in GlucoseValues :
        (pc = "detect_returned" /\ n > 400 /\ query \in HyperQueries(n)) =>
            /\ emergency.is_emergency = TRUE
            /\ \E k \in DOMAIN emergency.emergency_types :
                    emergency.emergency_types[k] = "severe_hyperglycemia"

C2_Witness ==
    /\ pc = "detect_returned"
    /\ query = "Help, my Blood Sugar Over 450 - what now?"
    /\ emergency.is_emergency
    /\ emergency.emergency_types = <<"severe_hyperglycemia">>

\* no pattern of any category is found in the lowered query
NoPatternMatches(q) ==
    \A c \in DOMAIN emergency_patterns :
        \A k \in DOMAIN emergency_patterns[c].patterns :
            ~Search(emergency_patterns[c].patterns[k], lower(q))

\* C3: for a query that matches no pattern of any category the result is
\* is_emergency = False, emergency_types = [] and emergency_response = None.
C3_NoMatchNoEmergency ==
    (pc = "detect_returned" /\ NoPatternMatches(query)) =>
        /\ emergency.is_emergency = FALSE
        /\ emergency.emergency_types = <<>>
        /\ emergency.emergency_response = PyNone

C3_Witness ==
    /\ pc = "detect_returned"
    /\ query = "My blood sugar is 450"
    /\ NoPatternMatches(query)
    /\ emergency.is_emergency = FALSE

CategoryOrder ==
    <<"severe_hyperglycemia", "severe_hypoglycemia", "dka_symptoms", "cardiac",
      "severe_confusion">>

\* some pattern of category c is found in the lowered query
CategoryMatches(c, q) ==
    \E e \in DOMAIN emergency_patterns :
        /\ emergency_patterns[e].type = c
        /\ \E k \in DOMAIN emergency_patterns[e].patterns :
                Search(emergency_patterns[e].patterns[k], lower(q))

MatchingCategories(q) == SelectSeq(CategoryOrder, LAMBDA c : CategoryMatches(c, q))

\* C4: emergency_types is the list of all categories with a matching pattern,
\* each once, in the order hyperglycemia, hypoglycemia, DKA, cardiac, confusion;
\* the response is the fixed template around one explanation line per category.
C4_AllMatchingCategories ==
    pc = "detect_returned" =>
        LET expected == MatchingCategories(query)
        IN  /\ emergency.emergency_types = expected
            /\ expected # <<>> =>
                emergency.emergency_response =
                    PyStr(ResponseHead
                          \o Join("\n", [k \in DOMAIN expected |-> explanations(expected[k])])
                          \o ResponseTail)

C4_Witness ==
    /\ pc = "detect_returned"
    /\ emergency.emergency_types = CategoryOrder
    /\ \A k \in DOMAIN CategoryOrder :
            In("\n" \o explanations(CategoryOrder[k]), emergency.emergency_response.v)

\* C5: medical_web_search is called only after a call of check_chunks_relevance
\* in the same run that returned chunk_relevance_score = "no".
C5_WebSearchOnlyAfterNo ==
    \A k \in DOMAIN calls :
        calls[k] = "medical_web_search" =>
            /\ \E j \in 1..(k - 1) : calls[j] = "check_chunks_relevance"
            /\ verdict.ty = "outcome"
            /\ verdict.kind = "return"
            /\ verdict.value.chunk_relevance_score = "no"

C5_Witness ==
    /\ Called("medical_web_search")
    /\ verdict.value.chunk_relevance_score = "no"
    /\ web_out.ty = "str"

\* the passages of the retrieval that query_diabetes_knowledge put in its output
IncludedPassages ==
    IF kb_passages.ty = "kb" /\ kb_passages.kb.configured /\ ~kb_passages.kb.raises
    THEN {i \in DOMAIN kb_passages.kb.results :
            kb_passages.kb.results[i].score >= kb_passages.min_score}
    ELSE {}

\* the knowledge base answered, with no passage that reaches the minimum score
NoRelevantPassages ==
    /\ kb_passages.ty = "kb"
    /\ kb_passages.kb.configured /\ ~kb_passages.kb.raises
    /\ IncludedPassages = {}

\* nothing fails in the environment of check_chunks_relevance
ScorerEnvHealthy ==
    /\ scorer_env.ty # "none"
    /\ scorer_env.imports_ok /\ scorer_env.client_ok /\ scorer_env.scoring_ok

\* C6: a non-emergency run in which the retrieval yields no sufficiently
\* relevant passage has called medical_web_search by the time the answer is
\* assembled (stated for the runs in which no import or service call fails).
C6_LowRelevanceFallsBack ==
    (pc = "done" /\ emergency.ty = "dict" /\ ~emergency.is_emergency
        /\ NoRelevantPassages /\ ScorerEnvHealthy)
        => Called("medical_web_search")

\* C7: given an output of query_diabetes_knowledge that holds at least one
\* passage, check_chunks_relevance does not take the no-blocks-found error
\* path, and what it extracts is one content block per passage (stated for the
\* calls in which no import or service call fails).
C7_ScorerExtractsRetrieverPassages ==
    (verdict.ty = "outcome" /\ IncludedPassages # {} /\ results_arg = kb_out
        /\ ScorerEnvHealthy) =>
        /\ verdict.value.error # PyStr(NoChunksMessage)
        /\ Len(verdict.docs) = Cardinality(IncludedPassages)

\* some step of check_chunks_relevance fails for these arguments in this environment
ScorerError(results, question, env) ==
    \/ ~env.imports_ok
    \/ results.ty # "str"
    \/ results.v = ""
    \/ question.ty # "str"
    \/ question.v = ""
    \/ FindDocs(results.v, 0) = <<>>
    \/ ~env.client_ok
    \/ ~env.scoring_ok

\* C8: on every extraction error (results or question empty or not a string, no
\* content block) and every scoring error (import, client or model call failure)
\* check_chunks_relevance returns chunk_relevance_score "yes" with value 0.5 and
\* an error text, and raises nothing.
C8_FailsOpen ==
    (pc = "scorer_returned" /\ ScorerError(results_arg, question_arg, scorer_env)) =>
        /\ verdict.kind = "return"
        /\ verdict.value.chunk_relevance_score = "yes"
        /\ verdict.value.chunk_relevance_value = 50
        /\ verdict.value.error.ty = "str"

C8_Witness ==
    /\ pc = "scorer_returned"
    /\ results_arg.ty = "str" /\ FindDocs(results_arg.v, 0) # <<>>
    /\ question_arg.ty = "str" /\ question_arg.v # ""
    /\ ~scorer_env.scoring_ok
    /\ verdict.kind = "return"
    /\ verdict.value.chunk_relevance_score = "yes"
    /\ verdict.model_called

\* results is a non-empty string without any Score:/Content: block
NoBlocks(results) == results.ty = "str" /\ results.v # "" /\ FindDocs(results.v, 0) = <<>>

\* C9 as stated: for a non-empty results string without blocks the caller gets
\* the no-valid-content-chunks error, nothing is raised and the scoring model is
\* not called.
C9_NoBlocksReported ==
    (pc = "scorer_returned" /\ NoBlocks(results_arg)) =>
        /\ verdict.kind = "return"
        /\ verdict.value.error = PyStr(NoChunksMessage)
        /\ ~verdict.model_called

\* C9 as amended: for a non-empty results string without blocks nothing is
\* raised, the scoring model is not called and the result carries an error; the
\* error is the no-valid-content-chunks one when the imports succeed and the
\* question is a non-empty string (else it is the import or the question error).
C9_NoBlocksReportedAmended ==
    (pc = "scorer_returned" /\ NoBlocks(results_arg)) =>
        /\ verdict.kind = "return"
        /\ verdict.value.error.ty = "str"
        /\ ~verdict.model_called
        /\ (scorer_env.imports_ok /\ question_arg.ty = "str" /\ question_arg.v # "")
                => verdict.value.error = PyStr(NoChunksMessage)

C9_Witness ==
    /\ pc = "scorer_returned"
    /\ results_arg = PyStr("Score: 0.82 Content: on one line")
    /\ question_arg = PyStr("What does insulin do?")
    /\ scorer_env.imports_ok /\ scorer_env.scoring_ok
    /\ verdict.value.error = PyStr(NoChunksMessage)
    /\ ~verdict.model_called

\* C10 as stated: in every result a value of exactly 0.5 goes with the verdict "no".
C10_HalfIsNo ==
    (pc = "scorer_returned" /\ verdict.kind = "return"
        /\ verdict.value.chunk_relevance_value = 50)
        => verdict.value.chunk_relevance_score = "no"

\* C10 as amended: in every result returned without an error the value is the
\* score of the model, the verdict is "yes" exactly for values above 0.5, and so
\* "no" for exactly 0.5; the results with an error pair 0.5 with "yes".
C10_HalfIsNoAmended ==
    (pc = "scorer_returned" /\ verdict.kind = "return") =>
        IF verdict.value.error = PyNone
        THEN /\ verdict.value.chunk_relevance_value = scorer_env.score
             /\ verdict.value.chunk_relevance_score = "yes"
                    <=> verdict.value.chunk_relevance_value > 50
             /\ verdict.value.chunk_relevance_value = 50
                    => verdict.value.chunk_relevance_score = "no"
        ELSE /\ verdict.value.chunk_relevance_value = 50
             /\ verdict.value.chunk_relevance_score = "yes"

C10_Witness ==
    /\ pc = "scorer_returned"
    /\ verdict.value.error = PyNone
    /\ verdict.value.chunk_relevance_value = 50
    /\ verdict.value.chunk_relevance_score = "no"

\* some concern keyword is in the lowered query
ConcernInQuery(q) == \E k \in DOMAIN warning_keywords : In(warning_keywords[k], lower(q))

\* some contraindication or interaction keyword of the table is in the lowered query
TableKeywordInQuery(q) ==
    \E e \in DOMAIN interaction_db :
        \/ \E k \in DOMAIN interaction_db[e].contraindications :
                In(interaction_db[e].contraindications[k], lower(q))
        \/ \E k \in DOMAIN interaction_db[e].interactions :
                In(interaction_db[e].interactions[k], lower(q))

\* C11: for a missing or empty medication list the result is safety_warnings = []
\* and has_concerns = False, whatever the query contains.
C11_NoMedicationsNoConcerns ==
    (pc = "med_returned"
        /\ (medications_arg = PyNone \/ medications_arg = PyListOf(<<>>))) =>
        /\ med_out.value.safety_warnings = <<>>
        /\ med_out.value.has_concerns = FALSE

C11_Witness ==
    /\ pc = "med_returned"
    /\ medications_arg = PyListOf(<<>>)
    /\ ConcernInQuery(query) /\ TableKeywordInQuery(query)
    /\ med_out.value.has_concerns = FALSE

\* the pairs (medication, table entry) where the entry's name is in the medication
MedMatches(medications) ==
    {p \in (DOMAIN medications) \X (DOMAIN interaction_db) :
        In(interaction_db[p[2]].med, lower(medications[p[1]]))}

\* the keyword matches: a pair of MedMatches with a keyword of the entry found in the query
KeywordMatches(medications, q, kind) ==
    {t \in MedMatches(medications) \X (1..5) :
        LET keywords == IF kind = "contra"
                        THEN interaction_db[t[1][2]].contraindications
                        ELSE interaction_db[t[1][2]].interactions
        IN  t[2] \in DOMAIN keywords /\ In(keywords[t[2]], lower(q))}

\* the line a keyword match is reported with
MatchLine(medications, t, kind) ==
    IF kind = "contra"
    THEN ContraWarning(medications[t[1][1]], interaction_db[t[1][2]].contraindications[t[2]])
    ELSE InteractionAlert(medications[t[1][1]], interaction_db[t[1][2]].interactions[t[2]])

IsNote(line) == StartsAt("**Note**: ", line, 0)

\* the number of lines of kind P in a list of warnings
CountLines(warnings, P(_)) == Cardinality({k \in DOMAIN warnings : P(warnings[k])})

\* every line is the line of a keyword match, or the note of a matching table entry
OnlyMatchLines(medications, q, warnings) ==
    \A k \in DOMAIN warnings :
        \/ \E t \in KeywordMatches(medications, q, "contra") :
                warnings[k] = MatchLine(medications, t, "contra")
        \/ \E t \in KeywordMatches(medications, q, "inter") :
                warnings[k] = MatchLine(medications, t, "inter")
        \/ \E p \in MedMatches(medications) :
                ConcernInQuery(q) /\ warnings[k] = GeneralNote(interaction_db[p[2]])

\* C12 as stated: for a non-empty list, one line per keyword match of a medication
\* that matches a table entry, plus a single general note when the query holds
\* a concern keyword (and some medication matches the table), and no other line.
C12_OneLinePerMatch ==
    (pc = "med_returned" /\ medications_arg.ty = "list" /\ medications_arg.v # <<>>) =>
        LET m == medications_arg.v
            w == med_out.value.safety_warnings
        IN  /\ CountLines(w, LAMBDA l : ~IsNote(l))
                = Cardinality(KeywordMatches(m, query, "contra"))
                    + Cardinality(KeywordMatches(m, query, "inter"))
            /\ CountLines(w, IsNote)
                = (IF ConcernInQuery(query) /\ MedMatches(m) # {} THEN 1 ELSE 0)
            /\ OnlyMatchLines(m, query, w)

\* C12, amended: one line per keyword match, and the general note once for every
\* pair of a medication and a table entry it matches (none when no medication
\* matches the table) when the query holds a concern keyword; no other line.
C12_OneLinePerMatchAmended ==
    (pc = "med_returned" /\ medications_arg.ty = "list" /\ medications_arg.v # <<>>) =>
        LET m == medications_arg.v
            w == med_out.value.safety_warnings
        IN  /\ CountLines(w, LAMBDA l : ~IsNote(l))
                = Cardinality(KeywordMatches(m, query, "contra"))
                    + Cardinality(KeywordMatches(m, query, "inter"))
            /\ CountLines(w, IsNote)
                = (IF ConcernInQuery(query) THEN Cardinality(MedMatches(m)) ELSE 0)
            /\ OnlyMatchLines(m, query, w)
            /\ med_out.value.has_concerns = (w # <<>>)

C12_Witness ==
    /\ pc = "med_returned"
    /\ medications_arg = PyListOf(<<"Metformin 500mg", "Insulin glargine">>)
    /\ query = "Is excessive alcohol a PROBLEM with my kidney disease?"
    /\ Len(med_out.value.safety_warnings) = 5
    /\ CountLines(med_out.value.safety_warnings, IsNote) = 2

\* the events of a run that fit P
EventsOf(run, P(_)) == {k \in DOMAIN run.events : P(run.events[k])}

IsPutDocument(e) == e.op = "put_document"
IsStored(e) == e.op = "put_document" /\ e.ok
IsPutTracker(e) == e.op = "put_tracker"
IsGetTracker(e) == e.op = "get_tracker"

\* the results the searches of a run were offered, before the filter, whose
\* content hash was in the tracker the run loaded: pairs (event, position)
OfferedKnown(run) ==
    {p \in (DOMAIN run.events) \X (1..2) :
        /\ run.events[p[1]].op = "search"
        /\ p[2] \in DOMAIN run.events[p[1]].offered
        /\ md5(run.events[p[1]].offered[p[2]].raw_content) \in run.loaded.content_hashes}

\* C13 as stated: a run with force_update = False makes no put for a document
\* offered to it whose content hash was in the tracker it loaded, and counts
\* every such document in skipped_existing (which may count further documents,
\* those whose content the run itself stored before it came to them).
C13_RerunSkipsUnchanged ==
    \A r \in Runs :
        (pc = "scraper" /\ runs[r].pc = "done" /\ ~runs[r].force_update) =>
            /\ \A p \in OfferedKnown(runs[r]) :
                \A k \in EventsOf(runs[r], IsPutDocument) :
                    runs[r].events[k].content_hash #
                        md5(runs[r].events[p[1]].offered[p[2]].raw_content)
            /\ runs[r].result.skipped_existing >= Cardinality(OfferedKnown(runs[r]))

\* the persisted tracker, as a run would load it
Persisted == load_content_tracker(bucket, FALSE, 0)

\* C14: every content hash of a tracker, in the memory of a run or persisted,
\* is the content hash of a document that was put to the storage with success.
C14_TrackedHashesWereWritten ==
    pc = "scraper" =>
        /\ \A r \in Runs :
            runs[r].pc # "idle" => runs[r].tracker.content_hashes \subseteq bucket.written
        /\ Persisted.content_hashes \subseteq bucket.written

C14_Witness ==
    /\ pc = "scraper"
    /\ Persisted.content_hashes # {}
    /\ \E r \in Runs :
        /\ runs[r].pc = "done"
        /\ \E k \in EventsOf(runs[r], IsPutDocument) :
            /\ ~runs[r].events[k].ok
            /\ runs[r].events[k].content_hash \notin runs[r].tracker.content_hashes

\* the run r handles the candidate document it is at in this step
Handles(r) == runs[r].pc = "processing" /\ runs'[r] # runs[r]

\* the candidate of run r is stored in this step and entered in the tracker
StoredInStep(r) ==
    LET result == runs[r].search_results[runs[r].ri]
    IN  /\ \E o \in bucket'.docs :
            /\ o.doc.url = result.url
            /\ o.doc.content_hash = md5(result.raw_content)
        /\ bucket'.written = bucket.written \cup {md5(result.raw_content)}
        /\ runs'[r].tracker.url_hashes = runs[r].tracker.url_hashes \cup {md5(result.url)}
        /\ runs'[r].tracker.content_hashes =
                runs[r].tracker.content_hashes \cup {md5(result.raw_content)}

\* the candidate of run r is left out in this step: no write, tracker unchanged
SkippedInStep(r) ==
    /\ bucket' = bucket
    /\ runs'[r].tracker = runs[r].tracker
    /\ runs'[r].skipped_existing = runs[r].skipped_existing + 1

\* the put of the candidate of run r raised in this step
FailedInStep(r) ==
    /\ bucket' = bucket
    /\ runs'[r].tracker = runs[r].tracker
    /\ runs'[r].skipped_existing = runs[r].skipped_existing
    /\ Len(runs'[r].errors) = Len(runs[r].errors) + 1

SavesInStep(r) ==
    /\ runs[r].pc = "saving"
    /\ runs'[r].pc = "done"
    /\ runs'[r].events[Len(runs'[r].events)].ok

----------------------------------------------------------------------------
(* Failures and missing configuration of the tools *)

ToolFinished == pc \in {"tool_returned", "tool_raised"}

HttpTools == {"get_weather", "get_weather_forecast", "web_search"}

\* the service behind the call fails: an error status, a timeout, a refused
\* connection, an error of the knowledge base, of the search or of the scoring model
ExternalCallFails(call) ==
    IF call.tool \in HttpTools
    THEN call.service.kind \in {"status", "timeout", "connection"}
    ELSE IF call.tool = "check_chunks_relevance"
    THEN ~call.env.scoring_ok
    ELSE call.service.raises

FailOpenResult(value) ==
    /\ value.chunk_relevance_score = "yes"
    /\ value.error.ty = "str"

RequiredConfigurationAbsent(call) ==
    IF call.tool \in {"get_weather", "get_weather_forecast"}
    THEN call.environ.OPENWEATHER_API_KEY.ty = "none"
    ELSE IF call.tool \in {"query_diabetes_knowledge", "query_diabetes_with_generation"}
    THEN call.environ.DIABETES_KB_ID.ty = "none"
    ELSE IF call.tool \in {"web_search", "medical_web_search"}
    THEN call.key = ""
    ELSE FALSE

NotConfiguredMessage(tool) ==
    CASE tool = "get_weather" -> WeatherNoKey
      [] tool = "get_weather_forecast" -> ForecastNoKey
      [] tool = "query_diabetes_knowledge" -> KbNotConfigured
      [] tool = "query_diabetes_with_generation" -> KbNotConfigured
      [] tool = "web_search" -> WebSearchNoKey
      [] tool = "medical_web_search" -> WebNoKey

ConfiguredMinimum(environ) ==
    CASE environ.DIABETES_KB_MIN_SCORE = PyNone -> 50
      [] environ.DIABETES_KB_MIN_SCORE = PyStr("0.8") -> 80
      [] environ.DIABETES_KB_MIN_SCORE = PyStr("0.3") -> 30

\* the formatted output has an entry for the idx-th retrieved passage
SourceShown(idx, text) == In("**Source " \o ToStr(idx) \o "** (relevance: ", text)

\* a retrieval that came back with passages, under a minimum score that parses
RetrievedPassages ==
    /\ pc = "tool_returned"
    /\ tool_call.tool = "query_diabetes_knowledge"
    /\ tool_call.environ.DIABETES_KB_ID.ty = "str"
    /\ ~tool_call.service.raises
    /\ tool_call.service.results # <<>>

----------------------------------------------------------------------------
(* The thresholds and the shape of the result of detect_emergency *)

\* the offsets at which a run of digits starts in q
RunStarts(q) ==
    {i \in 1..Len(q) : Char(q, i) \in Digit /\ (i = 1 \/ Char(q, i - 1) \notin Digit)}

\* the last offset of the run of digits that starts at i
RunEnd(q, i) ==
    CHOOSE j \in i..Len(q) :
        /\ \A k \in i..j : Char(q, k) \in Digit
        /\ (j = Len(q) \/ Char(q, j + 1) \notin Digit)

\* the numbers the query states
StatedValues(q) == {ToInt(SubSeq(q, i, RunEnd(q, i))) : i \in RunStarts(q)}

LossOfConsciousness(q) ==
    \E w \in {"unconscious", "passing out", "fainted"} : In(w, lower(q))

HasType(t) ==
    \E k \in DOMAIN emergency.emergency_types : emergency.emergency_types[k] = t

\* the query has a sign of ketoacidosis, of the heart or of confusion
OtherIndicator(q) ==
    \E c \in {"dka_symptoms", "cardiac", "severe_confusion"} : CategoryMatches(c, q)

\* C21: severe_hyperglycemia is reported only for a query that states a value
\* above 400, severe_hypoglycemia only for one that states a value below 40
\* or loss of consciousness; a query whose stated values all lie between 40
\* and 400 and that has no other indicator is not reported as an emergency
C21_ThresholdsRespected ==
    pc = "detect_returned" =>
        /\ HasType("severe_hyperglycemia") => \E v \in StatedValues(query) : v > 400
        /\ HasType("severe_hypoglycemia") =>
                \/ \E v \in StatedValues(query) : v < 40
                \/ LossOfConsciousness(query)
        /\ ( /\ StatedValues(query) # {}
             /\ \A v \in StatedValues(query) : v >= 40 /\ v <= 400
             /\ ~LossOfConsciousness(query)
             /\ ~OtherIndicator(query) )
                => ~emergency.is_emergency

Categories ==
    {"severe_hyperglycemia", "severe_hypoglycemia", "dka_symptoms", "cardiac",
     "severe_confusion"}

\* C28: in every result of detect_emergency, is_emergency is True exactly when
\* emergency_types is not empty and exactly when emergency_response is not
\* None; emergency_types has no tag twice and no tag outside the five categories
C28_ResultConsistent ==
    pc = "detect_returned" =>
        /\ emergency.is_emergency <=> emergency.emergency_types # <<>>
        /\ emergency.is_emergency <=> emergency.emergency_response # PyNone
        /\ \A j, k \in DOMAIN emergency.emergency_types :
                emergency.emergency_types[j] = emergency.emergency_types[k] => j = k
        /\ \A k \in DOMAIN emergency.emergency_types :
                emergency.emergency_types[k] \in Categories

\* reached: a query in which two patterns of one category are found, reported
\* with that category once
C28_Witness ==
    /\ pc = "detect_returned"
    /\ query = "fast breathing and nausea with diabetes, also chest pain, diabetic for years"
    /\ Search(emergency_patterns[3].patterns[2], lower(query))
    /\ Search(emergency_patterns[3].patterns[3], lower(query))
    /\ emergency.is_emergency
    /\ emergency.emergency_types = <<"dka_symptoms", "cardiac">>

----------------------------------------------------------------------------
(* The filter of the incremental search *)

\* the search got a response and returned
SearchDone ==
    /\ pc = "tool_returned"
    /\ tool_call.tool = "tavily_search_webmd_diabetes_incremental"
    /\ tool_call.response.has_key
    /\ ~tool_call.response.raises

UrlKnown(result) == md5(result.url) \in tool_call.tracker.url_hashes
ContentKnown(result) == md5(result.raw_content) \in tool_call.tracker.content_hashes

\* the result is one the claim says is returned
ToBeReturned(result) ==
    /\ In("webmd.com", lower(result.url))
    /\ ~UrlKnown(result) \/ (UrlKnown(result) /\ ~ContentKnown(result))

----------------------------------------------------------------------------
(* Object keys, failing puts, failing loads and saves, counters *)

\* run r puts its candidate document with success in this step
PutsDocumentInStep(r) ==
    /\ Handles(r)
    /\ Len(runs'[r].events) = Len(runs[r].events) + 1
    /\ IsStored(runs'[r].events[Len(runs'[r].events)])

KeysOf(b) == {o.key : o \in b.docs}

\* C23: no document put uses an object key that already holds a document,
\* whether written by the same run, an earlier run or an overlapping run
C23_NoKeyReused ==
    [][\A r \in Runs :
        PutsDocumentInStep(r) =>
            runs'[r].events[Len(runs'[r].events)].key \notin KeysOf(bucket)]_vars

\* the put of the candidate document of run r raises in this step
PutFailsInStep(r) ==
    /\ Handles(r)
    /\ Len(runs'[r].events) = Len(runs[r].events) + 1
    /\ IsPutDocument(runs'[r].events[Len(runs'[r].events)])
    /\ ~runs'[r].events[Len(runs'[r].events)].ok

\* run r goes on after its candidate: to the next document of the query, else
\* to the next query, else to the save of the tracker
GoesOn(r) ==
    IF runs[r].ri < Len(runs[r].search_results)
    THEN /\ runs'[r].pc = "processing"
         /\ runs'[r].ri = runs[r].ri + 1
         /\ runs'[r].qi = runs[r].qi
         /\ runs'[r].search_results = runs[r].search_results
    ELSE IF runs[r].qi < Len(runs[r].search_queries)
    THEN runs'[r].pc = "searching" /\ runs'[r].qi = runs[r].qi + 1
    ELSE runs'[r].pc = "saving"

\* C24: when the put of a document raises, one entry is appended to errors,
\* the tracker and the counters of scraped, updated and skipped documents stay
\* as they are, nothing is written, the run goes on with the remaining
\* documents and queries, and a run that returns has saved the tracker last
C24_FailedStoreIsIsolated ==
    /\ [][\A r \in Runs :
            PutFailsInStep(r) =>
                /\ Len(runs'[r].errors) = Len(runs[r].errors) + 1
                /\ runs'[r].tracker = runs[r].tracker
                /\ runs'[r].new_documents_scraped = runs[r].new_documents_scraped
                /\ runs'[r].updated_documents = runs[r].updated_documents
                /\ runs'[r].skipped_existing = runs[r].skipped_existing
                /\ runs'[r].s3_objects_created = runs[r].s3_objects_created
                /\ runs'[r].s3_objects_updated = runs[r].s3_objects_updated
                /\ bucket' = bucket
                /\ GoesOn(r)]_vars
    /\ [](\A r \in Runs :
            (runs[r].pc = "done" /\ runs[r].errors # <<>>) =>
                /\ IsPutTracker(runs[r].events[Len(runs[r].events)])
                /\ Cardinality(EventsOf(runs[r], IsPutTracker)) = 1)

\* reached: a run whose first put raised, which then searched its second
\* query, stored a document of it and saved the tracker
C24_Witness ==
    /\ pc = "scraper"
    /\ runs[1].pc = "done"
    /\ Len(runs[1].errors) = 1
    /\ \E i, j, k \in DOMAIN runs[1].events :
        /\ i < j /\ j < k
        /\ IsPutDocument(runs[1].events[i]) /\ ~runs[1].events[i].ok
        /\ runs[1].events[j].op = "search"
        /\ IsStored(runs[1].events[k])
    /\ IsPutTracker(runs[1].events[Len(runs[1].events)])
    /\ runs[1].events[Len(runs[1].events)].ok
    /\ runs[1].new_documents_scraped = 1

\* a tracker object was stored when run r loaded, and the load ended with an
\* error other than a missing key
LoadFailed(r) == runs[r].pc # "idle" /\ runs[r].events[1].failed

\* run r has returned and its save of the tracker succeeded
SavedAndReturned(r) ==
    /\ runs[r].pc = "done"
    /\ IsPutTracker(runs[r].events[Len(runs[r].events)])
    /\ runs[r].events[Len(runs[r].events)].ok

StoredBy(r) == EventsOf(runs[r], IsStored)

\* C25: a run whose load of the tracker failed starts from the empty tracker
\* of a first run; the tracker it saves at its end takes the place of the
\* persisted one and has the hashes and the document count of this run only
C25_FailedLoadStartsEmpty ==
    /\ [](\A r \in Runs :
            LoadFailed(r) =>
                /\ \E t \in 0..clock :
                        runs[r].loaded = load_content_tracker(EmptyBucket, FALSE, t)
                /\ runs[r].pc = "done" =>
                    /\ runs[r].tracker.content_hashes =
                            {runs[r].events[k].content_hash : k \in StoredBy(r)}
                    /\ runs[r].tracker.url_hashes =
                            {md5(runs[r].events[k].url) : k \in StoredBy(r)}
                    /\ runs[r].tracker.total_documents = Cardinality(StoredBy(r)))
    /\ [][\A r \in Runs :
            (LoadFailed(r) /\ SavesInStep(r)) =>
                load_content_tracker(bucket', FALSE, 0) = runs'[r].tracker]_vars

\* reached: a tracker with a hash was persisted, the load of the next run
\* failed, the run stored a document and saved: the hash is gone from the
\* persisted tracker
C25_Witness ==
    /\ pc = "scraper"
    /\ \E r \in Runs :
        /\ LoadFailed(r)
        /\ SavedAndReturned(r)
        /\ StoredBy(r) # {}
        /\ Persisted = runs[r].tracker
        /\ runs[r].events[1].found # PyNone
        /\ \E h \in SeqToSet(runs[r].events[1].found.v.content_hashes) :
                h \notin Persisted.content_hashes

\* the save of the tracker of run r fails in this step, and the run returns
SaveFailsInStep(r) ==
    /\ runs[r].pc = "saving"
    /\ runs'[r].pc = "done"
    /\ IsPutTracker(runs'[r].events[Len(runs'[r].events)])
    /\ ~runs'[r].events[Len(runs'[r].events)].ok

\* the result the run returns has the counters and lists the run had at the
\* save, and no further error
NormalResult(r) ==
    /\ runs'[r].result.new_documents_found = runs[r].new_documents_found
    /\ runs'[r].result.new_documents_scraped = runs[r].new_documents_scraped
    /\ runs'[r].result.updated_documents = runs[r].updated_documents
    /\ runs'[r].result.skipped_existing = runs[r].skipped_existing
    /\ runs'[r].result.s3_objects_created = runs[r].s3_objects_created
    /\ runs'[r].result.s3_objects_updated = runs[r].s3_objects_updated
    /\ runs'[r].result.errors = runs[r].errors
    /\ runs'[r].errors = runs[r].errors

\* C26 as stated: when the save fails, the run returns its normal result
\* without an error entry, and the persisted tracker object is as it was
\* before the run
C26_FailedSaveLeavesTracker ==
    [][\A r \in Runs :
        SaveFailsInStep(r) =>
            /\ NormalResult(r)
            /\ bucket'.tracker = runs[r].events[1].found]_vars

\* C26, amended: when the save fails, the run returns its normal result
\* without an error entry, and the save leaves the storage as it was just
\* before it (which is the state before the run unless another run saved
\* its tracker in between)
C26_FailedSaveLeavesTrackerAmended ==
    [][\A r \in Runs :
        SaveFailsInStep(r) =>
            /\ NormalResult(r)
            /\ bucket' = bucket]_vars

\* reached: a run that stored a document returned after a failed save; the
\* persisted tracker does not have the document's hash, the result no error
C26_Witness ==
    /\ pc = "scraper"
    /\ \E r \in Runs :
        /\ runs[r].pc = "done"
        /\ IsPutTracker(runs[r].events[Len(runs[r].events)])
        /\ ~runs[r].events[Len(runs[r].events)].ok
        /\ StoredBy(r) # {}
        /\ runs[r].result.new_documents_scraped = 1
        /\ runs[r].result.errors = <<>>
        /\ \E h \in runs[r].tracker.content_hashes : h \notin Persisted.content_hashes

\* C27: in the result of a run that returns, new_documents_scraped is the
\* length of s3_objects_created, updated_documents the length of
\* s3_objects_updated, their sum the number of successful document puts of the
\* run and the increase of total_documents over the loaded tracker, and together
\* with skipped_existing they do not exceed new_documents_found
C27_CountersMatchWrites ==
    \A r \in Runs :
        (pc = "scraper" /\ runs[r].pc = "done") =>
            LET result == runs[r].result
            IN  /\ result.new_documents_scraped = Len(result.s3_objects_created)
                /\ result.updated_documents = Len(result.s3_objects_updated)
                /\ Cardinality(StoredBy(r))
                        = result.new_documents_scraped + result.updated_documents
                /\ runs[r].tracker.total_documents - runs[r].loaded.total_documents
                        = result.new_documents_scraped + result.updated_documents
                /\ result.new_documents_scraped + result.updated_documents
                        + result.skipped_existing <= result.new_documents_found

\* reached: a run on the bucket an earlier run left, in which the put of an
\* updated page failed for the first query and succeeded for the second, so that
\* fewer documents are counted than were found
C27_Witness ==
    /\ pc = "scraper"
    /\ runs[1].pc = "done"
    /\ runs[1].loaded.total_documents = 1
    /\ runs[1].result.new_documents_found = 2
    /\ runs[1].result.updated_documents = 1
    /\ runs[1].result.new_documents_scraped = 0
    /\ runs[1].result.skipped_existing = 0
    /\ Len(runs[1].result.errors) = 1
    /\ runs[1].tracker.total_documents = 2

====
